---------------------------- MODULE Spec2Model ----------------------------
(***************************************************************************)
(* A model of the MCU similarity engine, mcu_compare/engine/similarity.py. *)
(*                                                                         *)
(* Python floats are modelled as exact rationals <<n, d>> (d > 0, lowest   *)
(* terms): every arithmetic step of the engine is a sum, product, quotient *)
(* or comparison, and the model performs the same steps without rounding.  *)
(* Python values (None, numbers, strings) are tagged records, dicts are    *)
(* functions from key strings, lists are sequences, tuples are tuples.     *)
(***************************************************************************)
EXTENDS Integers, Sequences, FiniteSets, TLC

VARIABLES
    DEFAULT_WEIGHTS,   \* the module-level default weight table
    pc,                \* "start" | "loop" | "done" | "raised": position of the call;
                       \* "store": the caller works on the JSON store
    call,              \* the call being made: its operation and arguments
    ret,               \* the value the call returned (NoRet before it returns)
    bm,                \* best_match's locals: i, best, best_score, best_pf
    ws,                \* weighted_similarity's locals in its latest run:
                       \* base (before normalisation) and weights (as used)
    completed,         \* the number of calls made before the current one
    db,                \* the JSON store: companies, MCU files, NCO entries
    db_before          \* the store as the latest call on it found it

vars == <<DEFAULT_WEIGHTS, pc, call, ret, bm, ws, completed, db, db_before>>

---------------------------------------------------------------------------
(* Exact rational arithmetic standing for Python float arithmetic.         *)

Abs(n) == IF n < 0 THEN -n ELSE n

RECURSIVE GCD(_, _)
GCD(a, b) == IF b = 0 THEN a ELSE GCD(b, a % b)

\* n/d in lowest terms, d > 0
Rat(n, d) == LET g == GCD(Abs(n), d) IN <<n \div g, d \div g>>

Zero == <<0, 1>>
One == <<1, 1>>
Int2Rat(n) == <<n, 1>>
\* the decimal literal 0.hh (hh hundredths)
Cent(hh) == Rat(hh, 100)

RAdd(x, y) == Rat(x[1] * y[2] + y[1] * x[2], x[2] * y[2])
RSub(x, y) == Rat(x[1] * y[2] - y[1] * x[2], x[2] * y[2])
RMul(x, y) == Rat(x[1] * y[1], x[2] * y[2])
\* x / y for y # 0
RDiv(x, y) == IF y[1] > 0 THEN Rat(x[1] * y[2], x[2] * y[1])
                          ELSE Rat(-(x[1] * y[2]), x[2] * (-y[1]))
\* x <= y: the whole parts first, then the fractional parts, so that no
\* product leaves the integers TLC computes with
RLe(x, y) ==
    \/ x[1] \div x[2] < y[1] \div y[2]
    \/ /\ x[1] \div x[2] = y[1] \div y[2]
       /\ (x[1] % x[2]) * y[2] <= (y[1] % y[2]) * x[2]
RLt(x, y) == ~RLe(y, x)
RMin(x, y) == IF RLt(y, x) THEN y ELSE x
RMax(x, y) == IF RLt(x, y) THEN y ELSE x
RAbs(x) == <<Abs(x[1]), x[2]>>
\* x > 1e-9, computed without forming n * 10^9
GtEps(x) == x[1] > 0 /\ (x[2] \div x[1]) < 1000000000
\* int(x) for a float x: truncation toward zero
RTrunc(x) == IF x[1] >= 0 THEN x[1] \div x[2] ELSE -((-x[1]) \div x[2])

---------------------------------------------------------------------------
(* Python values.                                                          *)

None == [t |-> "none", q |-> Zero, s |-> ""]
Num(q) == [t |-> "num", q |-> q, s |-> ""]
NumI(n) == Num(Int2Rat(n))
Str(s) == [t |-> "str", q |-> Zero, s |-> s]

\* bool(v)
py_bool(v) == CASE v.t = "none" -> FALSE
                [] v.t = "num" -> v.q[1] # 0
                [] v.t = "str" -> v.s # ""

\* v where the code writes v or 0
py_or0_kept(v) == v

\* v or 0
py_or0(v) == IF py_bool(v) THEN v ELSE NumI(0)

\* d.get(k) and d.get(k, default)
dict_get(d, k) == IF k \in DOMAIN d THEN d[k] ELSE None
dict_get_default(d, k, default) == IF k \in DOMAIN d THEN d[k] ELSE default

---------------------------------------------------------------------------
(* Python strings: str.strip, str.lower, substring test, number parsing.   *)

Char(s, i) == SubSeq(s, i, i)
IsSpace(c) == c \in {" ", "\t", "\n", "\r"}

RECURSIVE lstrip(_)
lstrip(s) == IF Len(s) > 0 /\ IsSpace(Char(s, 1))
             THEN lstrip(SubSeq(s, 2, Len(s))) ELSE s
RECURSIVE rstrip(_)
rstrip(s) == IF Len(s) > 0 /\ IsSpace(Char(s, Len(s)))
             THEN rstrip(SubSeq(s, 1, Len(s) - 1)) ELSE s
strip(s) == rstrip(lstrip(s))

LowerChar(c) ==
    CASE c = "A" -> "a" [] c = "B" -> "b" [] c = "C" -> "c" [] c = "D" -> "d"
      [] c = "E" -> "e" [] c = "F" -> "f" [] c = "G" -> "g" [] c = "H" -> "h"
      [] c = "I" -> "i" [] c = "J" -> "j" [] c = "K" -> "k" [] c = "L" -> "l"
      [] c = "M" -> "m" [] c = "N" -> "n" [] c = "O" -> "o" [] c = "P" -> "p"
      [] c = "Q" -> "q" [] c = "R" -> "r" [] c = "S" -> "s" [] c = "T" -> "t"
      [] c = "U" -> "u" [] c = "V" -> "v" [] c = "W" -> "w" [] c = "X" -> "x"
      [] c = "Y" -> "y" [] c = "Z" -> "z" [] OTHER -> c
RECURSIVE lower(_)
lower(s) == IF Len(s) = 0 THEN ""
            ELSE LowerChar(Char(s, 1)) \o lower(SubSeq(s, 2, Len(s)))

\* sub in s
contains(sub, s) ==
    \E i \in 1..(Len(s) - Len(sub) + 1) : SubSeq(s, i, i + Len(sub) - 1) = sub

DigitChars == {"0", "1", "2", "3", "4", "5", "6", "7", "8", "9"}
DigitVal(c) == CASE c = "0" -> 0 [] c = "1" -> 1 [] c = "2" -> 2 [] c = "3" -> 3
                 [] c = "4" -> 4 [] c = "5" -> 5 [] c = "6" -> 6 [] c = "7" -> 7
                 [] c = "8" -> 8 [] c = "9" -> 9
IsDigits(s) == Len(s) > 0 /\ \A i \in 1..Len(s) : Char(s, i) \in DigitChars
RECURSIVE DigitsVal(_)
DigitsVal(s) == IF Len(s) = 0 THEN 0
                ELSE DigitsVal(SubSeq(s, 1, Len(s) - 1)) * 10 + DigitVal(Char(s, Len(s)))

\* The number a string stands for, for float(s) and int(s): surrounding
\* whitespace is ignored, then an optional sign and decimal digits.  The
\* strings of the model hold no '.', exponent, 'inf', 'nan' or '_', the other
\* forms Python accepts; on every other string both raise ValueError.
ParseDigits(body, negative) ==
    IF IsDigits(body)
    THEN [ok |-> TRUE,
          q |-> Int2Rat(IF negative THEN -DigitsVal(body) ELSE DigitsVal(body))]
    ELSE [ok |-> FALSE, q |-> Zero]
ParseSigned(u) ==
    IF Len(u) > 0 /\ Char(u, 1) \in {"+", "-"}
    THEN ParseDigits(SubSeq(u, 2, Len(u)), Char(u, 1) = "-")
    ELSE ParseDigits(u, FALSE)
ParseNumber(s) == ParseSigned(strip(s))

\* float(v): ok = FALSE stands for the exception (TypeError, ValueError)
py_float(v) == CASE v.t = "none" -> [ok |-> FALSE, q |-> Zero]
                 [] v.t = "num" -> [ok |-> TRUE, q |-> v.q]
                 [] v.t = "str" -> ParseNumber(v.s)

\* int(v): ok = FALSE stands for the exception
py_int(v) == CASE v.t = "none" -> [ok |-> FALSE, q |-> Zero]
               [] v.t = "num" -> [ok |-> TRUE, q |-> Int2Rat(RTrunc(v.q))]
               [] v.t = "str" -> ParseNumber(v.s)

\* str(v); the numbers of the attribute sets are integers
py_str(v) == CASE v.t = "none" -> "None"
               [] v.t = "num" -> ToString(v.q[1])
               [] v.t = "str" -> v.s

---------------------------------------------------------------------------
(* Module-level tables.                                                    *)

CORE_FAMILIES ==
    [k \in {"ARM Cortex-M0", "ARM Cortex-M0+", "ARM Cortex-M3", "ARM Cortex-M4",
            "ARM Cortex-M7", "ARM Cortex-M23", "ARM Cortex-M33", "ARM Cortex-M55",
            "RISC-V", "RV32IMC", "RV32I", "RV64I", "FREE-RISC",
            "AVR", "8051", "PIC"} |->
        CASE k \in {"ARM Cortex-M0", "ARM Cortex-M0+", "ARM Cortex-M3",
                    "ARM Cortex-M4", "ARM Cortex-M7", "ARM Cortex-M23",
                    "ARM Cortex-M33", "ARM Cortex-M55"} -> "ARM_Cortex_M"
          [] k \in {"RISC-V", "RV32IMC", "RV32I", "RV64I", "FREE-RISC"} -> "RISC_V"
          [] k = "AVR" -> "AVR"
          [] k = "8051" -> "C51"
          [] k = "PIC" -> "PIC"]

\* The value DEFAULT_WEIGHTS is bound to when the module is loaded.
DefaultWeightsTable ==
    [core |-> Zero, core_mark |-> Int2Rat(0), dsp_core |-> Cent(2),
     fpu |-> Cent(15), max_clock_mhz |-> Cent(10), flash_kb |-> Cent(5),
     sram_kb |-> Cent(5), eeprom |-> Cent(1), gpios |-> Cent(5),
     uarts |-> Cent(5), spis |-> Cent(5), i2cs |-> Cent(5), pwms |-> Cent(5),
     timers |-> Cent(5), dacs |-> Cent(2), adcs |-> Cent(3), cans |-> Cent(3),
     power_mgmt |-> Cent(3), clock_mgmt |-> Cent(3), qei |-> Cent(4),
     internal_osc |-> Cent(4), security_features |-> Cent(5),
     output_compare |-> Cent(2), input_capture |-> Cent(2), qspi |-> Cent(3),
     ethernet |-> Cent(4), emif |-> Cent(3), spi_slave |-> Cent(2),
     ext_interrupts |-> Cent(3)]

CATEGORIES == << <<Int2Rat(80), "Best Match">>,
                 <<Int2Rat(65), "Partial">>,
                 <<Int2Rat(0), "No Match">> >>

---------------------------------------------------------------------------
(* The engine's functions.                                                 *)

\* a scan that asks for score_pct > threshold
RECURSIVE categorize_from_strict(_, _)
categorize_from_strict(score_pct, i) ==
    IF i > Len(CATEGORIES) THEN "No match"
    ELSE IF RLt(CATEGORIES[i][1], score_pct) THEN CATEGORIES[i][2]
    ELSE categorize_from_strict(score_pct, i + 1)

\* for threshold, name in CATEGORIES[i..]: if score_pct >= threshold: return name
RECURSIVE categorize_from(_, _)
categorize_from(score_pct, i) ==
    IF i > Len(CATEGORIES) THEN "No match"
    ELSE IF RLe(CATEGORIES[i][1], score_pct) THEN CATEGORIES[i][2]
    ELSE categorize_from(score_pct, i + 1)

categorize(score_pct) == categorize_from(score_pct, 1)

\* CORE_FAMILIES.get(a, a)
core_family(a) == IF a \in DOMAIN CORE_FAMILIES THEN CORE_FAMILIES[a] ELSE a

core_similarity(a, b) ==
    IF a = "" \/ b = "" THEN Zero
    ELSE IF a = b THEN One
    ELSE IF core_family(a) = core_family(b) THEN Cent(80)
    ELSE Zero

ratio_similarity(x, y) ==
    IF x = Zero /\ y = Zero THEN One
    ELSE IF x = Zero \/ y = Zero THEN Zero
    ELSE RDiv(RMin(x, y), RMax(x, y))

\* coverage without the cap at 1.0
coverage_of_uncapped(req, off) ==
    IF ~req.ok \/ ~off.ok THEN Zero
    ELSE IF RLe(req.q, Zero) THEN One
    ELSE IF RLe(off.q, Zero) THEN Zero
    ELSE RDiv(off.q, req.q)

\* coverage that scores an absent requirement 0.0 when nothing is offered
coverage_of_zero_req_fails(req, off) ==
    IF ~req.ok \/ ~off.ok THEN Zero
    ELSE IF RLe(off.q, Zero) THEN Zero
    ELSE IF RLe(req.q, Zero) THEN One
    ELSE RMin(One, RDiv(off.q, req.q))

\* a symmetric comparison: the ratio of the smaller to the larger
coverage_of_symmetric(req, off) ==
    IF ~req.ok \/ ~off.ok THEN Zero ELSE ratio_similarity(req.q, off.q)

\* coverage that marks an offer down for exceeding the requirement
coverage_of_overshoot(req, off) ==
    IF ~req.ok \/ ~off.ok THEN Zero
    ELSE IF RLe(req.q, Zero) THEN One
    ELSE IF RLe(off.q, Zero) THEN Zero
    ELSE IF RLt(req.q, off.q) THEN RDiv(req.q, off.q)
    ELSE RDiv(off.q, req.q)

\* the body of coverage_similarity once req and off are converted
\* (ok = FALSE: the conversion raised, and the except clause returns 0.0)
coverage_of(req, off) ==
    IF ~req.ok \/ ~off.ok THEN Zero
    ELSE IF RLe(req.q, Zero) THEN One
    ELSE IF RLe(off.q, Zero) THEN Zero
    ELSE RMin(One, RDiv(off.q, req.q))

coverage_similarity(requirement, offer) ==
    coverage_of(py_float(py_or0(requirement)), py_float(py_or0(offer)))

BOOL_DIR == {"input_capture", "ethernet", "emif", "spi_slave"}

\* _to01 for a value whose stripped, lower-cased text is xl (strings only)
\* and whose float() conversion is f
to01_of(x, xl, f) ==
    IF x.t = "str" /\ xl \in {"yes", "true", "1", "y", "on"} THEN One
    ELSE IF x.t = "str" /\ xl \in {"no", "false", "0", "off", ""} THEN Zero
    ELSE IF f.ok THEN (IF RLt(Zero, f.q) THEN One ELSE Zero)
    ELSE (IF py_bool(x) THEN One ELSE Zero)

_to01(x) == to01_of(x, lower(strip(x.s)), py_float(x))

\* the try/float/except/coverage pattern of the fpu and the count features,
\* xa and xb being the two conversions
numeric_of(xa, xb) ==
    IF ~xa.ok \/ ~xb.ok THEN Zero
    ELSE coverage_similarity(Num(xa.q), Num(xb.q))

numeric_similarity(comp_val, our_val) ==
    numeric_of(py_float(py_or0(comp_val)), py_float(py_or0(our_val)))

feature_similarity(feature, comp_val, our_val) ==
    IF feature = "core" THEN core_similarity(py_str(comp_val), py_str(our_val))
    ELSE IF feature = "core_mark" THEN coverage_similarity(comp_val, our_val)
    ELSE IF feature = "fpu" THEN numeric_similarity(comp_val, our_val)
    ELSE IF feature \in BOOL_DIR
         THEN coverage_similarity(Num(_to01(comp_val)), Num(_to01(our_val)))
    ELSE numeric_similarity(comp_val, our_val)

\* sum(d.values()): the running total over the keys still to add.  The
\* total is compared with itself so that it is computed at each step, as the
\* loop computes it, and not as one nested expression at the end.
RECURSIVE sum_over(_, _, _)
sum_over(d, keys, acc) ==
    IF keys = {} THEN acc
    ELSE LET picked == CHOOSE key \in keys : TRUE
             total == RAdd(acc, d[picked])
         IN IF total = total THEN sum_over(d, keys \ {picked}, total) ELSE Zero
dict_sum(d) == sum_over(d, DOMAIN d, Zero)

\* req_clock: float(a.get('max_clock_mhz') or 0), 0.0 on an exception
req_clock_of(f) == IF f.ok THEN f.q ELSE Zero
req_clock(a) == req_clock_of(py_float(py_or0(dict_get(a, "max_clock_mhz"))))

\* thresholds met at exactly 300 and 200 MHz
target_of_inclusive(clock, base) ==
    IF RLe(Int2Rat(300), clock) THEN Cent(20)
    ELSE IF RLe(Int2Rat(200), clock) THEN Cent(15)
    ELSE base["max_clock_mhz"]

target_of(clock, base) ==
    IF RLt(Int2Rat(300), clock) THEN Cent(20)
    ELSE IF RLt(Int2Rat(200), clock) THEN Cent(15)
    ELSE base["max_clock_mhz"]

target_clock_w(a, base) == target_of(req_clock(a), base)

\* scale = remaining_target / remaining_default if remaining_default > 0 else 1.0
scale_of(remaining_target, remaining_default) ==
    IF RLt(Zero, remaining_default)
    THEN RDiv(remaining_target, remaining_default) ELSE One

\* the loop that sets the clock weight and scales the other weights
rescaled(base, target, scale) ==
    [k \in DOMAIN base |->
        IF k = "max_clock_mhz" THEN target ELSE RMul(base[k], scale)]

adjust_total(base, target, total_default) ==
    IF GtEps(RAbs(RSub(target, base["max_clock_mhz"])))
    THEN rescaled(base, target,
                  scale_of(RSub(total_default, target),
                           RSub(total_default, base["max_clock_mhz"])))
    ELSE base

adjust(base, target) == adjust_total(base, target, dict_sum(base))

\* base after the dynamic clock adjustment, before normalisation
adjusted_weights(a) == adjust(DEFAULT_WEIGHTS, target_clock_w(a, DEFAULT_WEIGHTS))

\* the adjusted table used without normalisation
normalize_by_skipped(base, total_after) == base

normalize_by(base, total_after) ==
    IF RLt(Zero, total_after)
    THEN [k \in DOMAIN base |-> RDiv(base[k], total_after)]
    ELSE base

normalize_weights(base) == normalize_by(base, dict_sum(base))

\* the table derived from the defaults whatever the caller supplies
effective_weights_derived(a, weights) == normalize_weights(adjusted_weights(a))

\* a default table in which core weighs 0.10
effective_weights_core_weighted(a, weights) ==
    IF weights = None
    THEN normalize_weights([adjusted_weights(a) EXCEPT !["core"] = Cent(10)])
    ELSE weights

\* the table the scoring loop uses
effective_weights(a, weights) ==
    IF weights = None THEN normalize_weights(adjusted_weights(a)) ELSE weights

\* what the run binds base (before normalisation) and weights to
weighted_similarity_locals(a, weights) ==
    [base |-> IF weights = None THEN adjusted_weights(a) ELSE <<>>,
     weights |-> effective_weights(a, weights)]

core_str(a) ==
    LET v == dict_get_default(a, "core", Str(""))
    IN py_str(IF py_bool(v) THEN v ELSE Str(""))

\* a flag that int() cannot read counts as unset
fpga_flag_of_int_only(i, flag) == i.ok /\ i.q[1] # 0

\* is_fpga_flag, i being int(a.get('is_fpga', 0)) and flag a.get('is_fpga')
fpga_flag_of(i, flag) == IF i.ok THEN i.q[1] # 0 ELSE py_bool(flag)

is_fpga_flag(a) ==
    fpga_flag_of(py_int(dict_get_default(a, "is_fpga", NumI(0))),
                 dict_get(a, "is_fpga"))

is_fpga(a) == is_fpga_flag(a) \/ contains("fpga", lower(core_str(a)))

dsp_flag_of(val) ==
    IF val.t = "str" THEN lower(strip(val.s)) \in {"1", "true", "yes", "y"}
    ELSE IF val.t = "num" THEN RTrunc(val.q) # 0
    ELSE py_bool(val)

is_dsp_flag(a) == dsp_flag_of(dict_get_default(a, "is_dsp", NumI(0)))

_get(d, feat) ==
    IF feat = "dsp_core" THEN dict_get_default(d, "dsp_core", dict_get(d, "DSP"))
    ELSE dict_get(d, feat)

per_feature_scores(a, b, weights) ==
    [feat \in DOMAIN weights |->
        feature_similarity(feat, _get(a, feat), _get(b, feat))]

\* score after the loop: the sum of w * s over the table
weighted_score(weights, per_feature) ==
    dict_sum([feat \in DOMAIN weights |-> RMul(weights[feat], per_feature[feat])])

dsp_penalty(a, pct) ==
    IF is_dsp_flag(a) THEN RMax(Zero, RSub(pct, Int2Rat(20))) ELSE pct

\* the returns of weighted_similarity, w being the table it scores with and
\* total_w the sum of its values
scored(a, w, per_feature, total_w) ==
    IF is_fpga(a) THEN <<Zero, [feat \in DOMAIN w |-> Zero]>>
    ELSE IF RLe(total_w, Zero) THEN <<Zero, per_feature>>
    ELSE <<dsp_penalty(a, RMul(RDiv(weighted_score(w, per_feature), total_w),
                               Int2Rat(100))),
           per_feature>>

\* the business rules read from the candidate's attribute set
weighted_with_candidate_rules(a, b, w) ==
    scored(b, w, per_feature_scores(a, b, w), dict_sum(w))

weighted_with(a, b, w) == scored(a, w, per_feature_scores(a, b, w), dict_sum(w))

weighted_similarity(a, b, weights) == weighted_with(a, b, effective_weights(a, weights))

---------------------------------------------------------------------------
(* Exceptions.  Every conversion of an attribute value (float, int, strip)  *)
(* stands inside a try block, and the operators above return what its      *)
(* handler returns.  The statements outside every try block that can raise *)
(* are the divisions: the operators below give the divisors a run divides  *)
(* by, and the run raises ZeroDivisionError when one of them is 0.         *)

\* off / req computed whenever both values are numbers and off > 0
coverage_divisors_unchecked(req, off) ==
    IF ~req.ok \/ ~off.ok THEN {}
    ELSE IF RLe(off.q, Zero) THEN {}
    ELSE {req.q}

\* off / req at the last line of coverage_similarity
coverage_divisors(req, off) ==
    IF ~req.ok \/ ~off.ok THEN {}
    ELSE IF RLe(req.q, Zero) THEN {}
    ELSE IF RLe(off.q, Zero) THEN {}
    ELSE {req.q}

coverage_similarity_divisors(requirement, offer) ==
    coverage_divisors(py_float(py_or0(requirement)), py_float(py_or0(offer)))

numeric_divisors(xa, xb) ==
    IF ~xa.ok \/ ~xb.ok THEN {}
    ELSE coverage_similarity_divisors(Num(xa.q), Num(xb.q))

feature_divisors(feature, comp_val, our_val) ==
    IF feature = "core" THEN {}
    ELSE IF feature = "core_mark" THEN coverage_similarity_divisors(comp_val, our_val)
    ELSE IF feature \in BOOL_DIR
         THEN coverage_similarity_divisors(Num(_to01(comp_val)), Num(_to01(our_val)))
    ELSE numeric_divisors(py_float(py_or0(comp_val)), py_float(py_or0(our_val)))

\* remaining_target / remaining_default
adjust_divisors(base, target, total_default) ==
    IF GtEps(RAbs(RSub(target, base["max_clock_mhz"])))
          /\ RLt(Zero, RSub(total_default, base["max_clock_mhz"]))
    THEN {RSub(total_default, base["max_clock_mhz"])}
    ELSE {}

\* v / total_after
normalize_divisors(total_after) == IF RLt(Zero, total_after) THEN {total_after} ELSE {}

\* the divisions made while the weight table is derived
weights_divisors(a, weights) ==
    IF weights = None
    THEN adjust_divisors(DEFAULT_WEIGHTS, target_clock_w(a, DEFAULT_WEIGHTS),
                         dict_sum(DEFAULT_WEIGHTS))
            \cup normalize_divisors(dict_sum(adjusted_weights(a)))
    ELSE {}

\* score / total_w computed without the return on total_w <= 0
scoring_divisors_unguarded(a, b, w, total_w) ==
    IF is_fpga(a) THEN {}
    ELSE UNION {feature_divisors(feat, _get(a, feat), _get(b, feat)) : feat \in DOMAIN w}
            \cup {total_w}

\* the divisions of the scoring loop and score / total_w
scoring_divisors(a, b, w, total_w) ==
    IF is_fpga(a) THEN {}
    ELSE UNION {feature_divisors(feat, _get(a, feat), _get(b, feat)) : feat \in DOMAIN w}
            \cup (IF RLe(total_w, Zero) THEN {} ELSE {total_w})

scoring_divisors_with(a, b, w) == scoring_divisors(a, b, w, dict_sum(w))

weighted_similarity_divisors(a, b, weights) ==
    weights_divisors(a, weights)
        \cup scoring_divisors_with(a, b, effective_weights(a, weights))

\* the call raises instead of returning
weighted_similarity_raises(a, b, weights) ==
    Zero \in weighted_similarity_divisors(a, b, weights)

---------------------------------------------------------------------------
(* The module-level table after a run.                                     *)

\* base = DEFAULT_WEIGHTS without the copy: the loop that writes base[k]
\* writes the module's table
module_weights_aliased(module, base) == base

\* base = dict(DEFAULT_WEIGHTS) is a copy: the writes to base[k] and the
\* rebinding of base leave the module's table as it was
module_weights_copied(module, base) == module

default_weights_after(a, weights) ==
    IF weights = None THEN module_weights_copied(DEFAULT_WEIGHTS, adjusted_weights(a))
    ELSE DEFAULT_WEIGHTS

---------------------------------------------------------------------------
(* The JSON store (data/json_db.py).  A store d holds the content of the   *)
(* data directory: companies (companies.json), files (the MCU files, by    *)
(* file name; a name outside the domain is a file that does not exist) and *)
(* nco (nco.json).  An MCU record of the model holds id, company_id, name  *)
(* and, for the feature fields, fpu.  A function that reads MCU files can  *)
(* move one (the migration of _load_mcus), so each returns the store next  *)
(* to its value: [ret |-> value, d |-> store].                             *)

LowerLetters ==
    {"a", "b", "c", "d", "e", "f", "g", "h", "i", "j", "k", "l", "m", "n", "o",
     "p", "q", "r", "s", "t", "u", "v", "w", "x", "y", "z"}

\* re.sub(r'[^a-z0-9]+', '_', s): in_run tells that the run was replaced
RECURSIVE sub_other_runs(_, _)
sub_other_runs(s, in_run) ==
    IF Len(s) = 0 THEN ""
    ELSE IF Char(s, 1) \in LowerLetters \cup DigitChars
    THEN Char(s, 1) \o sub_other_runs(SubSeq(s, 2, Len(s)), FALSE)
    ELSE IF in_run THEN sub_other_runs(SubSeq(s, 2, Len(s)), TRUE)
    ELSE "_" \o sub_other_runs(SubSeq(s, 2, Len(s)), TRUE)

\* re.sub(r'_+', '_', s)
RECURSIVE sub_underscores(_)
sub_underscores(s) ==
    IF Len(s) < 2 THEN s
    ELSE IF Char(s, 1) = "_" /\ Char(s, 2) = "_"
    THEN sub_underscores(SubSeq(s, 2, Len(s)))
    ELSE Char(s, 1) \o sub_underscores(SubSeq(s, 2, Len(s)))

\* s.strip('_')
RECURSIVE strip_underscores(_)
strip_underscores(s) ==
    IF Len(s) > 0 /\ Char(s, 1) = "_" THEN strip_underscores(SubSeq(s, 2, Len(s)))
    ELSE IF Len(s) > 0 /\ Char(s, Len(s)) = "_"
    THEN strip_underscores(SubSeq(s, 1, Len(s) - 1))
    ELSE s

slug_or_default(s, company_id) ==
    IF s # "" THEN s ELSE "company_" \o ToString(company_id)

_slugify(name, company_id) ==
    slug_or_default(
        strip_underscores(sub_underscores(sub_other_runs(lower(strip(name)), FALSE))),
        company_id)

_legacy_mcus_file(company_id) == "mcus_company_" \o ToString(company_id) \o ".json"

\* no company: what get_company_by_id and get_mcu_by_id return as None
NoRecord == [id |-> 0]

RECURSIVE get_company_from(_, _, _)
get_company_from(companies, i, company_id) ==
    IF i > Len(companies) THEN NoRecord
    ELSE IF companies[i].id = company_id THEN companies[i]
    ELSE get_company_from(companies, i + 1, company_id)

get_company_by_id(d, company_id) == get_company_from(d.companies, 1, company_id)

mcus_file_of(comp, company_id) ==
    IF comp # NoRecord THEN "mcus_" \o _slugify(comp.name, company_id) \o ".json"
    ELSE _legacy_mcus_file(company_id)

_mcus_file(d, company_id) == mcus_file_of(get_company_by_id(d, company_id), company_id)

\* the files with file fp written, and with file fp removed
written(files, fp, mcus) ==
    [f \in DOMAIN files \cup {fp} |-> IF f = fp THEN mcus ELSE files[f]]
removed(files, fp) == [f \in DOMAIN files \ {fp} |-> files[f]]

_save_mcus(d, company_id, mcus) ==
    [d EXCEPT !.files = written(d.files, _mcus_file(d, company_id), mcus)]

\* _load_mcus: the name-based file, else the legacy file, which is saved
\* under the name-based path and removed, else [].  _normalize_mcu adds the
\* keys eeprom and core_mark, which the records of the model leave out, and
\* converts company_id, an int in every record of the model.
load_mcus_at(d, company_id, fp, legacy) ==
    IF fp \in DOMAIN d.files THEN [ret |-> d.files[fp], d |-> d]
    ELSE IF legacy \in DOMAIN d.files
    THEN [ret |-> d.files[legacy],
          d |-> [d EXCEPT !.files = removed(written(d.files, fp, d.files[legacy]),
                                            legacy)]]
    ELSE [ret |-> <<>>, d |-> d]

_load_mcus(d, company_id) ==
    load_mcus_at(d, company_id, _mcus_file(d, company_id), _legacy_mcus_file(company_id))

\* all_mcus: the files of the companies, one after another
RECURSIVE all_mcus_from(_, _, _, _)
all_mcus_loaded(companies, i, l, result) ==
    all_mcus_from(companies, i + 1, l.d, result \o l.ret)
all_mcus_from(companies, i, d, result) ==
    IF i > Len(companies) THEN [ret |-> result, d |-> d]
    ELSE all_mcus_loaded(companies, i, _load_mcus(d, companies[i].id), result)

all_mcus(d) == all_mcus_from(d.companies, 1, d, <<>>)

\* max((r.get('id', 0) for r in rows), default=0)
RECURSIVE max_id(_)
max_id(rows) ==
    IF Len(rows) = 0 THEN 0
    ELSE IF Head(rows).id > max_id(Tail(rows)) THEN Head(rows).id
    ELSE max_id(Tail(rows))

next_id_of(l) == [ret |-> max_id(l.ret) + 1, d |-> l.d]
_next_global_mcu_id(d) == next_id_of(all_mcus(d))
_next_company_id(d) == max_id(d.companies) + 1
_next_nco_id(d) == max_id(d.nco) + 1

\* the first record of rows with the given id, else NoRecord
RECURSIVE first_with_id(_, _)
first_with_id(rows, id) ==
    IF Len(rows) = 0 THEN NoRecord
    ELSE IF Head(rows).id = id THEN Head(rows)
    ELSE first_with_id(Tail(rows), id)

\* get_mcu_by_id: the first match in the files of the companies, in order
RECURSIVE get_mcu_from(_, _, _, _)
get_mcu_loaded(companies, i, l, mcu_id) ==
    IF first_with_id(l.ret, mcu_id) # NoRecord
    THEN [ret |-> first_with_id(l.ret, mcu_id), d |-> l.d]
    ELSE get_mcu_from(companies, i + 1, l.d, mcu_id)
get_mcu_from(companies, i, d, mcu_id) ==
    IF i > Len(companies) THEN [ret |-> NoRecord, d |-> d]
    ELSE get_mcu_loaded(companies, i, _load_mcus(d, companies[i].id), mcu_id)

get_mcu_by_id(d, mcu_id) == get_mcu_from(d.companies, 1, d, mcu_id)

\* the order of Python strings, for the characters of the model's names
Ascii == " -.0123456789ABCDEFGHIJKLMNOPQRSTUVWXYZ_abcdefghijklmnopqrstuvwxyz"
ord(c) == CHOOSE i \in 1..Len(Ascii) : Char(Ascii, i) = c
RECURSIVE str_le(_, _)
str_le(s, t) ==
    IF Len(s) = 0 THEN TRUE
    ELSE IF Len(t) = 0 THEN FALSE
    ELSE IF ord(Char(s, 1)) < ord(Char(t, 1)) THEN TRUE
    ELSE IF ord(Char(t, 1)) < ord(Char(s, 1)) THEN FALSE
    ELSE str_le(SubSeq(s, 2, Len(s)), SubSeq(t, 2, Len(t)))

\* sorted(rows, key=lambda m: m['name']): a stable sort
RECURSIVE inserted_by_name(_, _)
inserted_by_name(sorted, m) ==
    IF Len(sorted) = 0 THEN <<m>>
    ELSE IF str_le(Head(sorted).name, m.name)
    THEN <<Head(sorted)>> \o inserted_by_name(Tail(sorted), m)
    ELSE <<m>> \o sorted
RECURSIVE sorted_by_name(_, _)
sorted_by_name(rows, sorted) ==
    IF Len(rows) = 0 THEN sorted
    ELSE sorted_by_name(Tail(rows), inserted_by_name(sorted, Head(rows)))

\* [m for m in rows if m.get('company_id') == company_id]
RECURSIVE of_company(_, _)
of_company(rows, company_id) ==
    IF Len(rows) = 0 THEN <<>>
    ELSE IF Head(rows).company_id = company_id
    THEN <<Head(rows)>> \o of_company(Tail(rows), company_id)
    ELSE of_company(Tail(rows), company_id)

listed(l, company_id) ==
    [ret |-> sorted_by_name(of_company(l.ret, company_id), <<>>), d |-> l.d]
list_mcus_by_company(d, company_id) == listed(_load_mcus(d, company_id), company_id)

\* [r for r in rows if int(r.get('id')) != id]
RECURSIVE without_id(_, _)
without_id(rows, id) ==
    IF Len(rows) = 0 THEN <<>>
    ELSE IF Head(rows).id = id THEN without_id(Tail(rows), id)
    ELSE <<Head(rows)>> \o without_id(Tail(rows), id)

\* ensure_company
RECURSIVE company_named(_, _)
company_named(companies, name) ==
    IF Len(companies) = 0 THEN NoRecord
    ELSE IF Head(companies).name = name THEN Head(companies)
    ELSE company_named(Tail(companies), name)

\* for c in companies: c['is_ours'] = 0, when the new company is ours
flags_cleared(companies, is_ours) ==
    IF is_ours = 1 THEN [i \in 1..Len(companies) |-> [companies[i] EXCEPT !.is_ours = 0]]
    ELSE companies

ensure_file(d, new_id) ==
    IF _mcus_file(d, new_id) \in DOMAIN d.files THEN d ELSE _save_mcus(d, new_id, <<>>)

company_added(d, name, is_ours, new_id) ==
    [ret |-> new_id,
     d |-> ensure_file(
             [d EXCEPT !.companies =
                 Append(flags_cleared(d.companies, is_ours),
                        [id |-> new_id, name |-> name, is_ours |-> is_ours])],
             new_id)]

ensure_company(d, name, is_ours) ==
    IF company_named(d.companies, name) # NoRecord
    THEN [ret |-> company_named(d.companies, name).id, d |-> d]
    ELSE company_added(d, name, is_ours, _next_company_id(d))

\* the NCO rows after delete_mcu: the rows of the competitor MCU dropped,
\* our_mcu_id set to None where it is the MCU
RECURSIVE nco_without_mcu(_, _)
nco_without_mcu(rows, mcu_id) ==
    IF Len(rows) = 0 THEN <<>>
    ELSE IF Head(rows).comp_mcu_id = mcu_id THEN nco_without_mcu(Tail(rows), mcu_id)
    ELSE IF Head(rows).our_mcu_id = NumI(mcu_id)
    THEN <<[Head(rows) EXCEPT !.our_mcu_id = None]>> \o nco_without_mcu(Tail(rows), mcu_id)
    ELSE <<Head(rows)>> \o nco_without_mcu(Tail(rows), mcu_id)

\* delete_mcu from the point where the company's file is loaded
delete_mcu_loaded(l, company_id, mcu_id) ==
    IF Len(without_id(l.ret, mcu_id)) = Len(l.ret) THEN [ret |-> FALSE, d |-> l.d]
    ELSE [ret |-> TRUE,
          d |-> [_save_mcus(l.d, company_id, without_id(l.ret, mcu_id))
                    EXCEPT !.nco = nco_without_mcu(l.d.nco, mcu_id)]]
delete_mcu_found(t, mcu_id) ==
    IF t.ret = NoRecord THEN [ret |-> FALSE, d |-> t.d]
    ELSE delete_mcu_loaded(_load_mcus(t.d, t.ret.company_id), t.ret.company_id, mcu_id)
delete_mcu(d, mcu_id) == delete_mcu_found(get_mcu_by_id(d, mcu_id), mcu_id)

\* [r for r in rows if int(r.get('company_id', -1)) != company_id]
RECURSIVE nco_without_company(_, _)
nco_without_company(rows, company_id) ==
    IF Len(rows) = 0 THEN <<>>
    ELSE IF Head(rows).company_id = company_id
    THEN nco_without_company(Tail(rows), company_id)
    ELSE <<Head(rows)>> \o nco_without_company(Tail(rows), company_id)

\* delete_company once the list without the company is saved: the path of
\* the MCU file is asked for after that
delete_company_saved(d, company_id) ==
    [ret |-> TRUE,
     d |-> [d EXCEPT !.files = removed(d.files, _mcus_file(d, company_id)),
                     !.nco = nco_without_company(d.nco, company_id)]]
delete_company(d, company_id) ==
    IF Len(without_id(d.companies, company_id)) = Len(d.companies)
    THEN [ret |-> FALSE, d |-> d]
    ELSE delete_company_saved(
            [d EXCEPT !.companies = without_id(d.companies, company_id)], company_id)

\* record[f] = data.get(f, '' if f in ['name', 'core'] else 0)
new_record(new_id, company_id, data) ==
    [id |-> new_id, company_id |-> company_id,
     name |-> IF "name" \in DOMAIN data THEN data.name ELSE "",
     fpu |-> IF "fpu" \in DOMAIN data THEN data.fpu ELSE 0]

insert_mcu_numbered(mcus, n, company_id, data) ==
    [ret |-> n.ret,
     d |-> _save_mcus(n.d, company_id, Append(mcus, new_record(n.ret, company_id, data)))]
insert_mcu_loaded(l, company_id, data) ==
    insert_mcu_numbered(l.ret, _next_global_mcu_id(l.d), company_id, data)
insert_mcu(d, company_id, data) == insert_mcu_loaded(_load_mcus(d, company_id), company_id, data)

\* the fields of rec that data names, replaced
updated_record(rec, data) ==
    [rec EXCEPT !.name = IF "name" \in DOMAIN data THEN data.name ELSE @,
                !.fpu = IF "fpu" \in DOMAIN data THEN data.fpu ELSE @]
\* the first record with the id updated (the loop breaks there)
RECURSIVE first_updated(_, _, _)
first_updated(mcus, mcu_id, data) ==
    IF Len(mcus) = 0 THEN <<>>
    ELSE IF Head(mcus).id = mcu_id THEN <<updated_record(Head(mcus), data)>> \o Tail(mcus)
    ELSE <<Head(mcus)>> \o first_updated(Tail(mcus), mcu_id, data)

update_mcu_loaded(l, company_id, mcu_id, data) ==
    IF first_with_id(l.ret, mcu_id) = NoRecord THEN [ret |-> FALSE, d |-> l.d]
    ELSE [ret |-> TRUE, d |-> _save_mcus(l.d, company_id, first_updated(l.ret, mcu_id, data))]
update_mcu_found(t, mcu_id, data) ==
    IF t.ret = NoRecord THEN [ret |-> FALSE, d |-> t.d]
    ELSE update_mcu_loaded(_load_mcus(t.d, t.ret.company_id), t.ret.company_id, mcu_id, data)
update_mcu(d, mcu_id, data) == update_mcu_found(get_mcu_by_id(d, mcu_id), mcu_id, data)

\* add_nco_entry; the organisations file holds the seeded organisation 1
add_nco_entry(d, company_id, comp_mcu_id, quantity, our_mcu_id, notes, org_id) ==
    [ret |-> _next_nco_id(d),
     d |-> [d EXCEPT !.nco =
              Append(@, [id |-> _next_nco_id(d),
                         org_id |-> IF org_id = None THEN 1 ELSE org_id.q[1],
                         company_id |-> company_id,
                         comp_mcu_id |-> comp_mcu_id,
                         quantity |-> quantity,
                         our_mcu_id |-> our_mcu_id,
                         notes |-> notes])]]

\* the body of the loop of update_nco_entry for the entry found; every row
\* of the model holds the key our_mcu_id, which add_nco_entry always writes
entry_updated(r, company_id, comp_mcu_id, quantity, our_mcu_id, org_id) ==
    [r EXCEPT !.org_id = IF org_id # None THEN org_id.q[1] ELSE @,
              !.company_id = IF company_id # None THEN company_id.q[1] ELSE @,
              !.comp_mcu_id = IF comp_mcu_id # None THEN comp_mcu_id.q[1] ELSE @,
              !.quantity = IF quantity # None THEN quantity.q[1] ELSE @,
              !.our_mcu_id = our_mcu_id]

RECURSIVE first_entry_updated(_, _, _, _, _, _, _)
first_entry_updated(rows, entry_id, company_id, comp_mcu_id, quantity, our_mcu_id, org_id) ==
    IF Len(rows) = 0 THEN <<>>
    ELSE IF Head(rows).id = entry_id
    THEN <<entry_updated(Head(rows), company_id, comp_mcu_id, quantity, our_mcu_id,
                         org_id)>> \o Tail(rows)
    ELSE <<Head(rows)>> \o first_entry_updated(Tail(rows), entry_id, company_id,
                                               comp_mcu_id, quantity, our_mcu_id, org_id)

update_nco_entry(d, entry_id, company_id, comp_mcu_id, quantity, our_mcu_id, org_id) ==
    IF first_with_id(d.nco, entry_id) = NoRecord THEN [ret |-> FALSE, d |-> d]
    ELSE [ret |-> TRUE,
          d |-> [d EXCEPT !.nco = first_entry_updated(@, entry_id, company_id, comp_mcu_id,
                                                       quantity, our_mcu_id, org_id)]]

\* initialize() on an empty data directory: the seeded companies, then the
\* seeded MCUs saved company by company, then an empty nco.json
SeedCompanies ==
    << [id |-> 1, name |-> "Our Company", is_ours |-> 1],
       [id |-> 2, name |-> "STMicroelectronics", is_ours |-> 0],
       [id |-> 3, name |-> "NXP", is_ours |-> 0],
       [id |-> 4, name |-> "Microchip", is_ours |-> 0],
       [id |-> 5, name |-> "Renesas", is_ours |-> 0],
       [id |-> 6, name |-> "Infineon", is_ours |-> 0],
       [id |-> 7, name |-> "TI", is_ours |-> 0],
       [id |-> 8, name |-> "Nordic", is_ours |-> 0] >>
SeedMcus ==
    << [id |-> 1, company_id |-> 1, name |-> "OCM4-120", fpu |-> 1],
       [id |-> 2, company_id |-> 1, name |-> "OCM0-48", fpu |-> 0],
       [id |-> 3, company_id |-> 1, name |-> "OCM7-400", fpu |-> 1],
       [id |-> 4, company_id |-> 2, name |-> "STM32F407", fpu |-> 1],
       [id |-> 5, company_id |-> 2, name |-> "STM32G0B1", fpu |-> 0],
       [id |-> 6, company_id |-> 4, name |-> "ATSAMD21G18", fpu |-> 0],
       [id |-> 7, company_id |-> 3, name |-> "LPC55S69", fpu |-> 1] >>
\* the companies that have seeds, in the order of their first seed
SeededCompanyIds == <<1, 2, 4, 3>>
RECURSIVE seeds_saved(_, _)
seeds_saved(d, i) ==
    IF i > Len(SeededCompanyIds) THEN d
    ELSE seeds_saved(_save_mcus(d, SeededCompanyIds[i],
                                of_company(SeedMcus, SeededCompanyIds[i])), i + 1)
initialize == seeds_saved([companies |-> SeedCompanies, files |-> <<>>, nco |-> <<>>], 1)

---------------------------------------------------------------------------
(* The calls the model makes: bounded sets of arguments.                   *)

\* numbers offered to coverage_similarity: -1 .. MaxNum
MaxNum == 4
\* competitor and candidate clocks: 100 MHz steps up to 100 * MaxClockStep
MaxClockStep == 4
\* FPU levels 0 (none) .. MaxFpu
MaxFpu == 2
\* longest candidate list handed to best_match
MaxCandidates == 3
\* percentages handed to categorize: halves from -2.0 up to PctHalves / 2
PctHalves == 204

\* marks a key that the attribute set does not hold
Absent == [t |-> "absent", q |-> Zero, s |-> ""]
\* the dict holding the keys of f whose value is not Absent
MkDict(f) == [k \in {x \in DOMAIN f : f[x] # Absent} |-> f[k]]

CoverageArgs ==
    {None, Str(""), Str("abc"), Str(" 2 "), Num(Rat(1, 2)), Num(Rat(3, 2))}
        \cup {NumI(n) : n \in -1..MaxNum}

CoreNames ==
    {"ARM Cortex-M4", "ARM Cortex-M0+", "RISC-V", "RV32I", "AVR", "8051", "PIC",
     "C51", "RISC_V", "ARM_Cortex_M", "Zynq", "MSP430", "avr", "None", ""}

Percentages == {Rat(k, 2) : k \in -4..PctHalves}

ClockValues == {NumI(100 * k) : k \in 1..MaxClockStep}
FpuValues == {NumI(l) : l \in 1..MaxFpu}

\* competitors that differ in what they require
RequirementCompetitors ==
    {MkDict([core |-> c, max_clock_mhz |-> m, fpu |-> f, ethernet |-> e]) :
        c \in {Absent, Str("ARM Cortex-M4")},
        m \in {Absent, Str("abc"), Str("400")} \cup ClockValues,
        f \in {Absent} \cup FpuValues,
        e \in {Absent, Str("Yes")}}

\* competitors that differ in the business-rule flags
FlaggedCompetitors ==
    {MkDict([core |-> c, max_clock_mhz |-> m, fpu |-> NumI(1),
             is_fpga |-> g, is_dsp |-> d, DSP |-> NumI(1)]) :
        c \in {Str("ARM Cortex-M4"), Str("XC7A200T-FPGA"), Str("fpga soc")},
        m \in {NumI(100 * MaxClockStep)},
        g \in {Absent, NumI(0), NumI(1), Str("on")},
        d \in {Absent, NumI(0), NumI(1), Str(" Yes "), Str("on")}}

Competitors == RequirementCompetitors \cup FlaggedCompetitors

Candidates ==
    {MkDict([core |-> c, max_clock_mhz |-> m, fpu |-> f, ethernet |-> e]) :
        c \in {Str("ARM Cortex-M4"), Str("ARM Cortex-M0+")},
        m \in {Absent} \cup ClockValues,
        f \in {Absent} \cup FpuValues,
        e \in {Absent, NumI(1)}}

\* caller-supplied weight tables: whole numbers, one all zero, one empty
RequirementTable ==
    [core |-> Int2Rat(1), fpu |-> Int2Rat(3), max_clock_mhz |-> Int2Rat(4),
     dsp_core |-> Cent(150), ethernet |-> Cent(50)]

WeightTables == {RequirementTable, [core |-> Zero, fpu |-> Zero], <<>>}

WeightArgs == {None} \cup WeightTables

\* the candidates best_match picks among, some of them tied
PoolCandidates ==
    {[name |-> Str("P1"), max_clock_mhz |-> NumI(100), fpu |-> NumI(MaxFpu)],
     [name |-> Str("P2"), max_clock_mhz |-> NumI(100 * MaxClockStep)],
     [name |-> Str("P3"), max_clock_mhz |-> NumI(100 * MaxClockStep),
      fpu |-> NumI(MaxFpu)],
     [name |-> Str("P4"), max_clock_mhz |-> NumI(100 * MaxClockStep),
      fpu |-> NumI(MaxFpu), gpios |-> NumI(8)]}

RECURSIVE SeqsUpTo(_, _)
SeqsUpTo(S, n) ==
    IF n = 0 THEN {<<>>}
    ELSE LET shorter == SeqsUpTo(S, n - 1)
         IN shorter \cup {Append(q, x) : q \in {r \in shorter : Len(r) = n - 1}, x \in S}

BestMatchTargets ==
    {MkDict([core |-> c, max_clock_mhz |-> m, fpu |-> NumI(MaxFpu), is_dsp |-> d]) :
        c \in {Str("ARM Cortex-M4"), Str("Lattice FPGA")},
        m \in {NumI(200), NumI(100 * MaxClockStep)},
        d \in {Absent, NumI(1)}}
BestMatchWeights == {None, [fpu |-> Int2Rat(1), max_clock_mhz |-> Int2Rat(1)]}

\* attribute values of every kind: a missing key, None, numbers, and
\* strings that are empty, unparsable, padded digits or a truth word
ArbitraryValues ==
    {Absent, None, Str(""), Str("abc"), Str(" 2 "), Str("yes"),
     NumI(0), NumI(-1), NumI(1), Num(Rat(1, 2))}
ArbitraryCores == {Absent, None, Str(""), Str("ARM Cortex-M4")}

ArbitraryFeatureCalls ==
    {[op |-> "weighted_similarity", weights |-> w,
      a |-> MkDict([fpu |-> v1, ethernet |-> v2]),
      b |-> MkDict([fpu |-> v3, ethernet |-> v3])] :
        v1 \in ArbitraryValues, v2 \in ArbitraryValues, v3 \in ArbitraryValues,
        w \in {None, RequirementTable}}
ArbitraryFlagCalls ==
    {[op |-> "weighted_similarity", weights |-> w,
      a |-> MkDict([core |-> Str("ARM Cortex-M4"), max_clock_mhz |-> v1,
                    is_fpga |-> v2, is_dsp |-> v3]),
      b |-> [core |-> Str("ARM Cortex-M4"), fpu |-> NumI(1)]] :
        v1 \in ArbitraryValues, v2 \in ArbitraryValues, v3 \in ArbitraryValues,
        w \in {None, RequirementTable}}
ArbitraryCoreCalls ==
    {[op |-> "weighted_similarity", weights |-> w,
      a |-> MkDict([core |-> c1, fpu |-> NumI(1)]),
      b |-> MkDict([core |-> c2, fpu |-> NumI(1)])] :
        c1 \in ArbitraryCores, c2 \in ArbitraryCores, w \in {None, RequirementTable}}
ArbitraryBestMatchCalls ==
    {[op |-> "best_match", target |-> MkDict([fpu |-> v1, is_dsp |-> v1]),
      candidates |-> cs, weights |-> None] :
        v1 \in ArbitraryValues,
        cs \in SeqsUpTo({MkDict([fpu |-> v]) : v \in {Absent, None, Str("abc"), NumI(1)}}, 2)}
\* a candidate that holds what the competitor holds, booleans in any coding
IdenticalCalls ==
    {[op |-> "weighted_similarity", weights |-> None,
      a |-> MkDict([core |-> Str("ARM Cortex-M4"), fpu |-> f, dsp_core |-> x, ethernet |-> e]),
      b |-> MkDict([core |-> Str("ARM Cortex-M4"), fpu |-> f, dsp_core |-> x, ethernet |-> e])] :
        f \in FpuValues,
        x \in {Absent, NumI(1), Str("yes"), Str("on")},
        e \in {Absent, NumI(1), Str("yes")}}
ArbitraryCalls ==
    ArbitraryFeatureCalls \cup ArbitraryFlagCalls \cup ArbitraryCoreCalls
        \cup ArbitraryBestMatchCalls \cup IdenticalCalls

\* caller-supplied tables: complete, all zero, empty, without core, with a
\* total of 0 and with a negative total
SuppliedTables ==
    WeightTables \cup
        {[fpu |-> Int2Rat(1), max_clock_mhz |-> Int2Rat(1)],
         [core |-> Int2Rat(1), fpu |-> Int2Rat(-1)],
         [core |-> Int2Rat(-2), fpu |-> Int2Rat(1)]}

\* competitors and candidates holding keys inside and outside those tables
TableCompetitors ==
    {MkDict([core |-> c, max_clock_mhz |-> m, fpu |-> f, is_dsp |-> d,
             DSP |-> x[1], dsp_core |-> x[2], gpios |-> g]) :
        c \in {Str("ARM Cortex-M4"), Str("XC7A200T-FPGA")},
        m \in {NumI(100), NumI(100 * MaxClockStep)},
        f \in {Absent, NumI(0), NumI(MaxFpu)},
        d \in {Absent, NumI(1)},
        x \in {<<Absent, Absent>>, <<NumI(1), Absent>>, <<NumI(1), NumI(0)>>},
        g \in {Absent, NumI(4)}}
TableCandidates ==
    {MkDict([core |-> c, fpu |-> f, dsp_core |-> x]) :
        c \in {Str("ARM Cortex-M4"), Str("ARM Cortex-M0+")},
        f \in {Absent, NumI(0), NumI(1)},
        x \in {Absent, NumI(1)}}
TableCalls ==
    {[op |-> "weighted_similarity", a |-> a, b |-> b, weights |-> w] :
        a \in TableCompetitors, b \in TableCandidates, w \in {None} \cup SuppliedTables}

\* the most calls made one after another on the same module
MaxCalls == 2

\* the calls made in sequence: every clock regime, with and without a table
SequenceWeightedCalls ==
    {[op |-> "weighted_similarity", weights |-> w,
      a |-> MkDict([core |-> Str("ARM Cortex-M4"), max_clock_mhz |-> m, fpu |-> NumI(1)]),
      b |-> [core |-> Str("ARM Cortex-M0+"), max_clock_mhz |-> NumI(200), fpu |-> NumI(1)]] :
        m \in {Absent, NumI(100), NumI(250), NumI(400)},
        w \in {None, [fpu |-> Int2Rat(1), max_clock_mhz |-> Int2Rat(1)]}}
SequenceBestMatchCalls ==
    {[op |-> "best_match", weights |-> None, candidates |-> cs,
      target |-> [max_clock_mhz |-> m, fpu |-> NumI(MaxFpu)]] :
        m \in {NumI(100), NumI(250), NumI(400)},
        cs \in SeqsUpTo({[name |-> Str("P1"), max_clock_mhz |-> NumI(100), fpu |-> NumI(MaxFpu)],
                         [name |-> Str("P2"), max_clock_mhz |-> NumI(400)]}, 2)}
SequenceCalls == SequenceWeightedCalls \cup SequenceBestMatchCalls

\* the textual forms of a boolean, and other values a feature may hold
TruthWords == {"yes", "true", "1", "on"}
FalseWords == {"no", "false", "0", "off"}
FeatureValues ==
    {None, NumI(0), NumI(1), NumI(2), Str("abc")}
        \cup {Str(word) : word \in TruthWords \cup FalseWords}
FeatureCalls ==
    {[op |-> "feature_similarity", feature |-> f, comp_val |-> x, our_val |-> y] :
        f \in DOMAIN DefaultWeightsTable, x \in FeatureValues, y \in FeatureValues}

CoverageCalls ==
    {[op |-> "coverage_similarity", requirement |-> r, offer |-> o] :
        r \in CoverageArgs, o \in CoverageArgs}
CoreCalls ==
    {[op |-> "core_similarity", a |-> a, b |-> b] : a \in CoreNames, b \in CoreNames}
CategorizeCalls ==
    {[op |-> "categorize", score_pct |-> p] : p \in Percentages}
WeightedCalls ==
    {[op |-> "weighted_similarity", a |-> a, b |-> b, weights |-> w] :
        a \in Competitors, b \in Candidates, w \in WeightArgs}
BestMatchCalls ==
    {[op |-> "best_match", target |-> t, candidates |-> cs, weights |-> w] :
        t \in BestMatchTargets, cs \in SeqsUpTo(PoolCandidates, MaxCandidates),
        w \in BestMatchWeights}

---------------------------------------------------------------------------
(* The state machine: a call is drawn, then the operation runs.            *)

NoRet == <<"no return value">>
BmIdle == [i |-> 0, best |-> None, best_score |-> Zero, best_pf |-> <<>>]
WsIdle == [base |-> <<>>, weights |-> <<>>]

InitWith(calls) ==
    /\ DEFAULT_WEIGHTS = DefaultWeightsTable
    /\ pc = "start"
    /\ call \in calls
    /\ ret = NoRet
    /\ bm = BmIdle
    /\ ws = WsIdle
    /\ completed = 0
    /\ db = initialize
    /\ db_before = initialize

Return(value) ==
    /\ ret' = value
    /\ pc' = "done"
    /\ UNCHANGED <<DEFAULT_WEIGHTS, call, bm, ws, completed, db, db_before>>

CoverageSimilarity ==
    /\ pc = "start" /\ call.op = "coverage_similarity"
    /\ Return(coverage_similarity(call.requirement, call.offer))

CoreSimilarity ==
    /\ pc = "start" /\ call.op = "core_similarity"
    /\ Return(core_similarity(call.a, call.b))

Categorize ==
    /\ pc = "start" /\ call.op = "categorize"
    /\ Return(categorize(call.score_pct))

\* the outcome of one run of weighted_similarity(a, b, weights), raised
\* telling whether it raises: the position it leads to and what it returns
run_pc(raised, returned) == IF raised THEN "raised" ELSE returned
run_ret(raised, a, b, weights) ==
    IF raised THEN NoRet ELSE weighted_similarity(a, b, weights)

FeatureSimilarity ==
    /\ pc = "start" /\ call.op = "feature_similarity"
    /\ Return(feature_similarity(call.feature, call.comp_val, call.our_val))

WeightedSimilarity ==
    /\ pc = "start" /\ call.op = "weighted_similarity"
    /\ \E raised \in {weighted_similarity_raises(call.a, call.b, call.weights)} :
        /\ ret' = run_ret(raised, call.a, call.b, call.weights)
        /\ pc' = run_pc(raised, "done")
    /\ ws' = weighted_similarity_locals(call.a, call.weights)
    /\ DEFAULT_WEIGHTS' = default_weights_after(call.a, call.weights)
    /\ UNCHANGED <<call, bm, completed, db, db_before>>

\* best = None; best_score = -1.0; best_pf = {}
\* a running maximum that starts at 0.0
best_match_init_zero ==
    [i |-> 1, best |-> None, best_score |-> Zero, best_pf |-> <<>>]

best_match_init ==
    [i |-> 1, best |-> None, best_score |-> Int2Rat(-1), best_pf |-> <<>>]

BestMatchEnter ==
    /\ pc = "start" /\ call.op = "best_match"
    /\ bm' = best_match_init
    /\ pc' = "loop"
    /\ UNCHANGED <<DEFAULT_WEIGHTS, call, ret, ws, completed, db, db_before>>

\* a loop body that replaces the best on s >= best_score
best_match_update_last_wins(locals, c, r) ==
    IF RLe(locals.best_score, r[1])
    THEN [i |-> locals.i + 1, best |-> c, best_score |-> r[1], best_pf |-> r[2]]
    ELSE [locals EXCEPT !.i = @ + 1]

\* if s > best_score: best, best_score, best_pf = c, s, pf
best_match_update(locals, c, r) ==
    IF RLt(locals.best_score, r[1])
    THEN [i |-> locals.i + 1, best |-> c, best_score |-> r[1], best_pf |-> r[2]]
    ELSE [locals EXCEPT !.i = @ + 1]

\* the loop body for candidate c = candidates[i]
best_match_step(locals, target, c, weights) ==
    best_match_update(locals, c, weighted_similarity(target, c, weights))

\* the locals after the loop body, unchanged when the body raises
best_match_locals(raised, locals, target, c, weights) ==
    IF raised THEN locals ELSE best_match_step(locals, target, c, weights)

BestMatchStep ==
    /\ pc = "loop" /\ bm.i <= Len(call.candidates)
    /\ \E raised \in {weighted_similarity_raises(call.target, call.candidates[bm.i],
                                                  call.weights)} :
        /\ bm' = best_match_locals(raised, bm, call.target, call.candidates[bm.i],
                                   call.weights)
        /\ pc' = run_pc(raised, "loop")
    /\ ws' = weighted_similarity_locals(call.target, call.weights)
    /\ DEFAULT_WEIGHTS' = default_weights_after(call.target, call.weights)
    /\ UNCHANGED <<call, ret, completed, db, db_before>>

BestMatchReturn ==
    /\ pc = "loop" /\ bm.i > Len(call.candidates)
    /\ ret' = <<bm.best, bm.best_score, bm.best_pf>>
    /\ pc' = "done"
    /\ UNCHANGED <<DEFAULT_WEIGHTS, call, bm, ws, completed, db, db_before>>

InitCoverage == InitWith(CoverageCalls)
NextCoverage == CoverageSimilarity
SpecCoverage == InitCoverage /\ [][NextCoverage]_vars

InitCore == InitWith(CoreCalls)
NextCore == CoreSimilarity
SpecCore == InitCore /\ [][NextCore]_vars

InitCategorize == InitWith(CategorizeCalls)
NextCategorize == Categorize
SpecCategorize == InitCategorize /\ [][NextCategorize]_vars

InitWeighted == InitWith(WeightedCalls)
NextWeighted == WeightedSimilarity
SpecWeighted == InitWeighted /\ [][NextWeighted]_vars

InitBestMatch == InitWith(BestMatchCalls)
NextBestMatch == BestMatchEnter \/ BestMatchStep \/ BestMatchReturn
SpecBestMatch == InitBestMatch /\ [][NextBestMatch]_vars

\* the caller makes its next call on the same module
NextCall ==
    /\ pc = "done" /\ completed < MaxCalls
    /\ call' \in SequenceCalls
    /\ pc' = "start"
    /\ ret' = NoRet
    /\ bm' = BmIdle
    /\ completed' = completed + 1
    /\ UNCHANGED <<DEFAULT_WEIGHTS, ws, db, db_before>>

\* between two iterations of best_match's loop another caller runs a whole
\* weighted_similarity call on the same module
InterleavedCall ==
    /\ pc = "loop"
    /\ \E other \in SequenceWeightedCalls :
        /\ DEFAULT_WEIGHTS' = default_weights_after(other.a, other.weights)
        /\ ws' = weighted_similarity_locals(other.a, other.weights)
    /\ UNCHANGED <<pc, call, ret, bm, completed, db, db_before>>

InitSequence == InitWith(SequenceCalls)
NextSequence ==
    \/ WeightedSimilarity
    \/ BestMatchEnter
    \/ BestMatchStep
    \/ BestMatchReturn
    \/ NextCall
    \/ InterleavedCall
SpecSequence == InitSequence /\ [][NextSequence]_vars

InitFeature == InitWith(FeatureCalls)
NextFeature == FeatureSimilarity
SpecFeature == InitFeature /\ [][NextFeature]_vars

InitTables == InitWith(TableCalls)
NextTables == WeightedSimilarity
SpecTables == InitTables /\ [][NextTables]_vars

InitArbitrary == InitWith(ArbitraryCalls)
NextArbitrary == WeightedSimilarity \/ BestMatchEnter \/ BestMatchStep \/ BestMatchReturn
SpecArbitrary == InitArbitrary /\ [][NextArbitrary]_vars

Init == InitWith(CoverageCalls \cup CoreCalls \cup CategorizeCalls
                    \cup FeatureCalls \cup WeightedCalls \cup BestMatchCalls)
Next == \/ CoverageSimilarity
        \/ CoreSimilarity
        \/ Categorize
        \/ FeatureSimilarity
        \/ WeightedSimilarity
        \/ BestMatchEnter
        \/ BestMatchStep
        \/ BestMatchReturn
Spec == Init /\ [][Next]_vars

---------------------------------------------------------------------------
(* Properties.                                                             *)

Done(op) == pc = "done" /\ call.op = op
InRange(x, lo, hi) == RLe(lo, x) /\ RLe(x, hi)
NonNegativeWeights(w) == w = None \/ \A f \in DOMAIN w : RLe(Zero, w[f])
\* the weight table a call scores with: its own, or the default table's keys
TableKeys(w) == IF w = None THEN DOMAIN DefaultWeightsTable ELSE DOMAIN w
Without(a, key) == [x \in DOMAIN a \ {key} |-> a[x]]
\* the encodings of a set flag: 1 and the textual forms of a true value
TruthyFlags == {NumI(1), Str("1"), Str("yes"), Str(" Yes "), Str("true"), Str("on")}
FpgaFlagSet(a) == "is_fpga" \in DOMAIN a /\ a["is_fpga"] \in TruthyFlags
DspFlagSet(a) == "is_dsp" \in DOMAIN a /\ a["is_dsp"] \in TruthyFlags
CoreNamesFpga(a) ==
    "core" \in DOMAIN a /\ a["core"].t = "str" /\ contains("fpga", lower(a["core"].s))

\* C1: with non-negative weights (default or supplied), weighted_similarity
\* returns a percentage in [0, 100] and every per-feature score in [0, 1].
C1_RangeInvariant ==
    (Done("weighted_similarity") /\ NonNegativeWeights(call.weights)) =>
        /\ InRange(ret[1], Zero, Int2Rat(100))
        /\ \A f \in DOMAIN ret[2] : InRange(ret[2][f], Zero, One)

C1_Witness ==
    /\ Done("weighted_similarity")
    /\ call.weights # None
    /\ RLt(Zero, ret[1]) /\ RLt(ret[1], Int2Rat(100))
    /\ \E f \in DOMAIN ret[2] : RLt(Zero, ret[2][f]) /\ RLt(ret[2][f], One)
    /\ \E f \in DOMAIN ret[2] : ret[2][f] = One

\* C2: for a non-empty candidate list best_match returns (c, s, pf) where s
\* is the largest weighted_similarity percentage over the list, c is the
\* lowest-index candidate attaining s, (s, pf) is weighted_similarity of c,
\* and the loop has scored every candidate.
C2_BestMatchMaximum ==
    (Done("best_match") /\ Len(call.candidates) > 0) =>
        LET n == Len(call.candidates)
            scores == [i \in 1..n |->
                weighted_similarity(call.target, call.candidates[i], call.weights)]
        IN /\ bm.i = n + 1
           /\ \A i \in 1..n : RLe(scores[i][1], ret[2])
           /\ \E i \in 1..n :
                /\ ret[1] = call.candidates[i]
                /\ scores[i][1] = ret[2]
                /\ scores[i][2] = ret[3]
                /\ \A j \in 1..(i - 1) : RLt(scores[j][1], ret[2])

\* a later, different candidate ties with the winner, which is not the first
C2_Witness ==
    /\ Done("best_match") /\ Len(call.candidates) = 3
    /\ ret[1] = call.candidates[2]
    /\ call.candidates[1] # call.candidates[2]
    /\ call.candidates[3] # call.candidates[2]
    /\ weighted_similarity(call.target, call.candidates[3], call.weights)[1] = ret[2]
    /\ RLt(Zero, ret[2])

\* C3: if the competitor's core contains "fpga" in any letter case or its
\* is_fpga flag is truthy, weighted_similarity returns 0.0 and a per-feature
\* map holding every feature of the weight table with score 0.0.
C3_FpgaDisqualified ==
    (Done("weighted_similarity") /\ (CoreNamesFpga(call.a) \/ FpgaFlagSet(call.a))) =>
        /\ ret[1] = Zero
        /\ DOMAIN ret[2] = TableKeys(call.weights)
        /\ \A f \in DOMAIN ret[2] : ret[2][f] = Zero

\* an upper-case FPGA core, no flag, a candidate that would otherwise score
C3_Witness ==
    /\ Done("weighted_similarity")
    /\ dict_get(call.a, "core") = Str("XC7A200T-FPGA")
    /\ "is_fpga" \notin DOMAIN call.a
    /\ call.weights = None
    /\ ret[1] = Zero /\ ret[2]["fpu"] = Zero
    /\ RLt(Zero, weighted_similarity(Without(call.a, "core"), call.b, None)[1])

\* C4: when the competitor's is_dsp flag is truthy the percentage equals
\* max(0, base - 20) where base is the percentage of the same call without
\* the flag, and the per-feature scores are those of that call.
C4_DspPenalty ==
    (Done("weighted_similarity") /\ DspFlagSet(call.a)) =>
        LET plain == weighted_similarity(Without(call.a, "is_dsp"), call.b, call.weights)
        IN /\ ret[1] = RMax(Zero, RSub(plain[1], Int2Rat(20)))
           /\ ret[2] = plain[2]

\* C5: for numbers, coverage(requirement, offer) is 1.0 if requirement <= 0,
\* 0.0 if requirement > 0 and offer <= 0, and min(1.0, offer / requirement)
\* otherwise; so for requirement > 0 it does not decrease as the offer grows
\* and it is 1.0 once offer >= requirement.
C5_CoverageReference ==
    (Done("coverage_similarity") /\ call.requirement.t = "num" /\ call.offer.t = "num") =>
        LET r == call.requirement.q
            o == call.offer.q
        IN /\ ret = (IF RLe(r, Zero) THEN One
                     ELSE IF RLe(o, Zero) THEN Zero
                     ELSE IF RLe(r, o) THEN One ELSE RDiv(o, r))
           /\ (RLt(Zero, r) /\ RLe(r, o)) => ret = One
           /\ RLt(Zero, r) =>
                \A o2 \in {x \in CoverageArgs : x.t = "num"} :
                    RLe(o, o2.q) => RLe(ret, coverage_similarity(call.requirement, o2))

C5_Witness ==
    /\ Done("coverage_similarity")
    /\ call.requirement = NumI(3) /\ call.offer = NumI(2)
    /\ ret = Rat(2, 3)

\* C6: for two non-empty core names the core similarity is 1.0 if they are
\* equal, 0.8 if they differ but both are keys of the core-family table with
\* the same family, and 0.0 otherwise, in both argument orders.
C6_CoreSimilarityTable ==
    (Done("core_similarity") /\ call.a # "" /\ call.b # "") =>
        /\ ret = (IF call.a = call.b THEN One
                  ELSE IF /\ call.a \in DOMAIN CORE_FAMILIES
                          /\ call.b \in DOMAIN CORE_FAMILIES
                          /\ CORE_FAMILIES[call.a] = CORE_FAMILIES[call.b]
                       THEN Cent(80)
                  ELSE Zero)
        /\ ret = core_similarity(call.b, call.a)

\* C7: with no weight table supplied, the table weighted_similarity scores
\* with sums to 1.0 whatever the competitor's max_clock_mhz.
C7_WeightsSumToOne ==
    (Done("weighted_similarity") /\ call.weights = None) =>
        dict_sum(ws.weights) = One

\* a competitor above 300 MHz: the table was adjusted, then normalised
C7_Witness ==
    /\ Done("weighted_similarity") /\ call.weights = None
    /\ dict_get(call.a, "max_clock_mhz") = NumI(400)
    /\ ws.weights["max_clock_mhz"] = RDiv(Cent(20), Cent(114))
    /\ ws.weights # DefaultWeightsTable

\* the clock weight the competitor's max_clock_mhz asks for
C8_ClockWeight(a) ==
    LET v == dict_get(a, "max_clock_mhz")
        mhz == IF v.t = "num" THEN v.q
               ELSE IF v = Str("400") THEN Int2Rat(400) ELSE Zero
    IN IF RLt(Int2Rat(300), mhz) THEN Cent(20)
       ELSE IF RLt(Int2Rat(200), mhz) THEN Cent(15)
       ELSE Cent(10)

\* C8: with no weight table supplied, the clock weight before normalisation
\* is 0.20 above 300 MHz, 0.15 above 200 MHz up to 300, else the default
\* 0.10 (at exactly 200, missing, unparsable); it depends on the competitor
\* only; when it changes every other weight is the default one times
\* (total - new) / (total - old), and the total stays the default total.
C8_ClockAdjustment ==
    (Done("weighted_similarity") /\ call.weights = None) =>
        LET new == C8_ClockWeight(call.a)
            old == DefaultWeightsTable["max_clock_mhz"]
            total == dict_sum(DefaultWeightsTable)
        IN /\ old = Cent(10)
           /\ ws.base["max_clock_mhz"] = new
           /\ \A k \in DOMAIN DefaultWeightsTable \ {"max_clock_mhz"} :
                ws.base[k] = IF new = old THEN DefaultWeightsTable[k]
                             ELSE RMul(DefaultWeightsTable[k],
                                       RDiv(RSub(total, new), RSub(total, old)))
           /\ DOMAIN ws.base = DOMAIN DefaultWeightsTable
           /\ dict_sum(ws.base) = total

\* a competitor at exactly 300 MHz and a faster candidate: 0.15
C8_Witness ==
    /\ Done("weighted_similarity") /\ call.weights = None
    /\ dict_get(call.a, "max_clock_mhz") = NumI(300)
    /\ dict_get(call.b, "max_clock_mhz") = NumI(400)
    /\ ws.base["max_clock_mhz"] = Cent(15)
    /\ ws.base["fpu"] = RMul(Cent(15), Rat(99, 104))

\* C9: categorize(p) is the label of the first entry of the descending table
\* whose threshold p meets: 'Best Match' from 80, 'Partial' from 65 below 80,
\* 'No Match' from 0 below 65; for p in [0, 100] it is a label of the table.
C9_Categorize ==
    Done("categorize") =>
        LET p == call.score_pct
        IN /\ RLe(Int2Rat(80), p) => ret = "Best Match"
           /\ (RLe(Int2Rat(65), p) /\ RLt(p, Int2Rat(80))) => ret = "Partial"
           /\ (RLe(Zero, p) /\ RLt(p, Int2Rat(65))) => ret = "No Match"
           /\ InRange(p, Zero, Int2Rat(100)) =>
                \E i \in 1..Len(CATEGORIES) :
                    /\ ret = CATEGORIES[i][2]
                    /\ RLe(CATEGORIES[i][1], p)
                    /\ \A j \in 1..(i - 1) : RLt(p, CATEGORIES[j][1])

C9_Witness ==
    Done("categorize") /\ call.score_pct = Int2Rat(80) /\ ret = "Best Match"

\* C10: best_match returns (None, -1.0, {}) for an empty candidate list and
\* a candidate with a score >= 0.0 for every non-empty one, so the score is
\* negative exactly when no candidate was evaluated.
C10_Sentinel ==
    Done("best_match") =>
        /\ Len(call.candidates) = 0 => ret = <<None, Int2Rat(-1), <<>>>>
        /\ Len(call.candidates) > 0 =>
            /\ ret[1] # None
            /\ ret[1] = call.candidates[1] \/ RLt(Zero, ret[2])
            /\ RLe(Zero, ret[2])
        /\ RLt(ret[2], Zero) <=> Len(call.candidates) = 0

\* every candidate scores a genuine 0.0: the first one is still returned
C10_Witness ==
    /\ Done("best_match") /\ Len(call.candidates) = 2
    /\ ret[2] = Zero
    /\ ret[1] = call.candidates[1]

\* C11: whatever the attribute values (numbers, parsable or unparsable
\* strings, None, missing keys, the flags included), weighted_similarity and
\* best_match never raise: each call returns a result of its shape.
C11_NeverRaises ==
    /\ pc # "raised"
    /\ Done("weighted_similarity") =>
        /\ ret # NoRet /\ Len(ret) = 2
        /\ DOMAIN ret[2] = TableKeys(call.weights)
    /\ Done("best_match") => (ret # NoRet /\ Len(ret) = 3)

\* unparsable clock and DSP flag, a None FPGA flag: the call still scores
C11_Witness ==
    /\ Done("weighted_similarity")
    /\ dict_get(call.a, "max_clock_mhz") = Str("abc")
    /\ "is_fpga" \in DOMAIN call.a /\ call.a["is_fpga"] = None
    /\ dict_get(call.a, "is_dsp") = Str("abc")
    /\ call.weights = None
    /\ RLt(Zero, ret[1])

\* a string that stands neither for a number nor for a boolean
Unparsable(v) ==
    /\ v.t = "str"
    /\ ~ParseNumber(v.s).ok
    /\ lower(strip(v.s)) \notin TruthWords \cup FalseWords \cup {"y", ""}

\* C12: for every feature but core, if the competitor's or the candidate's
\* value cannot be parsed as a number or boolean, the feature's similarity
\* is 0.0, and every other feature scores as it does without the two values.
C12_UnparsableFailsClosed ==
    (Done("weighted_similarity") /\ ~is_fpga(call.a)) =>
        \A f \in DOMAIN ret[2] \ {"core"} :
            (Unparsable(_get(call.a, f)) \/ Unparsable(_get(call.b, f))) =>
                /\ ret[2][f] = Zero
                /\ \A g \in DOMAIN ret[2] \ {f} :
                      ret[2][g] = weighted_similarity(Without(call.a, f), Without(call.b, f),
                                                      call.weights)[2][g]

\* the boolean-coded features
BooleanCoded ==
    {"dsp_core", "power_mgmt", "clock_mgmt", "qei", "internal_osc",
     "security_features", "eeprom", "input_capture", "ethernet", "emif", "spi_slave"}
\* 1.0 for a truth word, 0.0 for a false word
Coerced(v) == IF v.s \in TruthWords THEN One ELSE Zero
IsWord(v) == v.t = "str" /\ v.s \in TruthWords \cup FalseWords

\* C13: for every boolean-coded feature, feature_similarity coerces the
\* words yes/true/1/on to 1.0 and no/false/0/off to 0.0 on both sides and
\* then applies coverage: a competitor "no" gives 1.0 whatever the
\* candidate holds, and "yes" against "yes" gives 1.0.
C13_BooleanCoercion ==
    (Done("feature_similarity") /\ call.feature \in BooleanCoded) =>
        /\ (IsWord(call.comp_val) /\ IsWord(call.our_val)) =>
              ret = coverage_similarity(Num(Coerced(call.comp_val)),
                                        Num(Coerced(call.our_val)))
        /\ call.comp_val = Str("no") => ret = One
        /\ (call.comp_val = Str("yes") /\ call.our_val = Str("yes")) => ret = One

\* the attribute set holds no core, or an empty one
CoreMissing(d) == "core" \notin DOMAIN d \/ d["core"] = Str("")

\* C14: in weighted_similarity, when the core key is missing or empty in the
\* competitor's set, in the candidate's, or in both, the per-feature score
\* of core is 0.0.
C14_MissingCoreScoresZero ==
    (/\ Done("weighted_similarity")
     /\ "core" \in DOMAIN ret[2]
     /\ (CoreMissing(call.a) \/ CoreMissing(call.b))) =>
        ret[2]["core"] = Zero

\* C15: a core name that is not a key of CORE_FAMILIES is a family of its
\* own: its similarity with every different name is 0.0, in both orders.
C15_UnknownCoreSingleton ==
    (/\ Done("core_similarity")
     /\ call.a \notin DOMAIN CORE_FAMILIES
     /\ call.a # call.b) =>
        /\ ret = Zero
        /\ core_similarity(call.b, call.a) = Zero

\* the call supplies a table whose total is <= 0
DegenerateTable == call.weights # None /\ RLe(dict_sum(call.weights), Zero)

\* C16 as stated: if the supplied table's total is <= 0, weighted_similarity
\* returns 0.0 and the per-feature scores computed for the table's keys,
\* with no division error, also when the competitor's DSP flag is set.
C16_DegenerateTable ==
    (call.op = "weighted_similarity" /\ DegenerateTable) =>
        /\ pc # "raised"
        /\ pc = "done" =>
            /\ ret[1] = Zero
            /\ ret[2] = per_feature_scores(call.a, call.b, call.weights)

\* C16 amended: the same for a competitor that is not an FPGA; for an FPGA
\* competitor the disqualification comes first and every score is 0.0.
C16_DegenerateTableAmended ==
    (call.op = "weighted_similarity" /\ DegenerateTable) =>
        /\ pc # "raised"
        /\ pc = "done" =>
            /\ ret[1] = Zero
            /\ ret[2] = IF is_fpga(call.a) THEN [f \in DOMAIN call.weights |-> Zero]
                         ELSE per_feature_scores(call.a, call.b, call.weights)

\* a DSP-flagged competitor, a table of total 0, a feature that scores 1.0
C16_Witness ==
    /\ Done("weighted_similarity") /\ DegenerateTable
    /\ ~is_fpga(call.a) /\ is_dsp_flag(call.a)
    /\ call.weights = [core |-> Int2Rat(1), fpu |-> Int2Rat(-1)]
    /\ ret = <<Zero, [core |-> One, fpu |-> One]>>

\* the table a call scores with on a module that was just loaded
fresh_weights(a, weights) ==
    IF weights = None
    THEN normalize_weights(adjust(DefaultWeightsTable,
                                  target_of(req_clock(a), DefaultWeightsTable)))
    ELSE weights
fresh_weighted_similarity(a, b, weights) == weighted_with(a, b, fresh_weights(a, weights))

\* best_match's loop from candidate i on, on a module that was just loaded
RECURSIVE fresh_best_match(_, _, _, _, _)
fresh_best_match(target, candidates, weights, i, locals) ==
    IF i > Len(candidates) THEN <<locals.best, locals.best_score, locals.best_pf>>
    ELSE fresh_best_match(target, candidates, weights, i + 1,
            best_match_update(locals, candidates[i],
                              fresh_weighted_similarity(target, candidates[i], weights)))

C17_State ==
    /\ DEFAULT_WEIGHTS = DefaultWeightsTable
    /\ Done("weighted_similarity") =>
          ret = fresh_weighted_similarity(call.a, call.b, call.weights)
    /\ Done("best_match") =>
          ret = fresh_best_match(call.target, call.candidates, call.weights, 1,
                                 best_match_init)

\* C17: after any sequence or interleaving of weighted_similarity and
\* best_match calls, with or without a table and with any competitor clock,
\* DEFAULT_WEIGHTS is the table the module was loaded with, a running call
\* leaves its arguments as they are, and every call returns what the same
\* call returns when made first on a fresh module.
C17_NoHiddenState ==
    /\ []C17_State
    /\ [][pc # "done" => call' = call]_vars

\* a third call, with no table, made after a run that raised the clock
\* weight to 0.20: it returns with the default weight 0.10
C17_Witness ==
    /\ Done("weighted_similarity") /\ completed = 2
    /\ call.weights = None
    /\ dict_get(call.a, "max_clock_mhz") = NumI(100)
    /\ ws.base["max_clock_mhz"] = Cent(10)
    /\ RLt(Zero, ret[1])

\* neither rule applies to the competitor
Unflagged(a) == ~CoreNamesFpga(a) /\ ~FpgaFlagSet(a) /\ ~DspFlagSet(a)
\* factors a table is multiplied by
ScaleFactors == {Int2Rat(2), Rat(1, 3)}
Scaled(w, k) == [f \in DOMAIN w |-> RMul(k, w[f])]

\* C18: a supplied weight table is used as given, with no clock adjustment
\* whatever the competitor's max_clock_mhz; for a competitor that is neither
\* FPGA nor DSP-flagged (the table's weights non-negative, their total
\* positive) the percentage is 100 * sum(w[f] * sim[f]) / sum(w[f]) over
\* exactly the table's keys, and it is the same for the table multiplied by
\* a positive factor.
C18_SuppliedTableAsGiven ==
    (Done("weighted_similarity") /\ call.weights # None) =>
        /\ ws.weights = call.weights
        /\ (/\ Unflagged(call.a)
            /\ NonNegativeWeights(call.weights)
            /\ RLt(Zero, dict_sum(call.weights))) =>
              /\ DOMAIN ret[2] = DOMAIN call.weights
              /\ \A f \in DOMAIN call.weights :
                    ret[2][f] = feature_similarity(f, _get(call.a, f), _get(call.b, f))
              /\ ret[1] = RDiv(RMul(Int2Rat(100),
                                    dict_sum([f \in DOMAIN call.weights |->
                                                RMul(call.weights[f], ret[2][f])])),
                               dict_sum(call.weights))
              /\ \A k \in ScaleFactors :
                    weighted_similarity(call.a, call.b, Scaled(call.weights, k))[1] = ret[1]

\* a competitor above 300 MHz scored with the supplied clock weight 4
C18_Witness ==
    /\ Done("weighted_similarity") /\ call.weights = RequirementTable
    /\ Unflagged(call.a)
    /\ dict_get(call.a, "max_clock_mhz") = NumI(100 * MaxClockStep)
    /\ ws.weights["max_clock_mhz"] = Int2Rat(4)
    /\ RLt(Zero, ret[1]) /\ RLt(ret[1], Int2Rat(100))

With(d, key, value) == [x \in DOMAIN d \cup {key} |-> IF x = key THEN value ELSE d[x]]
\* one feature or more of each class: ordinal, boolean-coded, count, clock
CheckedFeatures ==
    {"core_mark", "fpu", "dsp_core", "eeprom", "ethernet", "gpios", "max_clock_mhz"}
RuleFlags == {"is_fpga", "is_dsp", "DSP"}

\* C19 as stated: the per-feature map has exactly the table's keys; an
\* attribute key outside the table, other than is_fpga, is_dsp and DSP,
\* never changes the result; and for a feature other than core a key absent
\* from an attribute set gives the result of that key present with value 0.
C19_ExactlyTheTableKeys ==
    Done("weighted_similarity") =>
        /\ DOMAIN ret[2] = TableKeys(call.weights)
        /\ \A k \in DOMAIN call.a \ (TableKeys(call.weights) \cup RuleFlags) :
              ret = weighted_similarity(Without(call.a, k), call.b, call.weights)
        /\ \A k \in DOMAIN call.b \ (TableKeys(call.weights) \cup RuleFlags) :
              ret = weighted_similarity(call.a, Without(call.b, k), call.weights)
        /\ \A f \in (CheckedFeatures \cap TableKeys(call.weights)) \ DOMAIN call.a :
              ret = weighted_similarity(With(call.a, f, NumI(0)), call.b, call.weights)
        /\ \A f \in (CheckedFeatures \cap TableKeys(call.weights)) \ DOMAIN call.b :
              ret = weighted_similarity(call.a, With(call.b, f, NumI(0)), call.weights)

\* the features whose absence from d stands for the value 0: all of them
\* but dsp_core in a set that holds the alias DSP
ZeroWhenAbsent(d, w) ==
    (CheckedFeatures \cap TableKeys(w)) \ (DOMAIN d \cup
        (IF "DSP" \in DOMAIN d THEN {"dsp_core"} ELSE {}))

\* C19 amended: as stated, except that the competitor's core is read by the
\* FPGA rule also when the table has no core key, and that an absent
\* dsp_core stands for the value of the alias DSP when the set holds one.
C19_ExactlyTheTableKeysAmended ==
    Done("weighted_similarity") =>
        /\ DOMAIN ret[2] = TableKeys(call.weights)
        /\ \A k \in DOMAIN call.a \ (TableKeys(call.weights) \cup RuleFlags \cup {"core"}) :
              ret = weighted_similarity(Without(call.a, k), call.b, call.weights)
        /\ \A k \in DOMAIN call.b \ (TableKeys(call.weights) \cup RuleFlags) :
              ret = weighted_similarity(call.a, Without(call.b, k), call.weights)
        /\ \A f \in ZeroWhenAbsent(call.a, call.weights) :
              ret = weighted_similarity(With(call.a, f, NumI(0)), call.b, call.weights)
        /\ \A f \in ZeroWhenAbsent(call.b, call.weights) :
              ret = weighted_similarity(call.a, With(call.b, f, NumI(0)), call.weights)

\* a table of fpu and clock only: the competitor's gpios lie outside it and
\* its fpu is absent
C19_Witness ==
    /\ Done("weighted_similarity")
    /\ call.weights = [fpu |-> Int2Rat(1), max_clock_mhz |-> Int2Rat(1)]
    /\ "gpios" \in DOMAIN call.a /\ "fpu" \notin DOMAIN call.a
    /\ ~CoreNamesFpga(call.a)
    /\ DOMAIN ret[2] = {"fpu", "max_clock_mhz"}
    /\ ret[2]["fpu"] = One /\ ret[2]["max_clock_mhz"] = Zero

\* a value of feature f that states an amount: nothing, a number, digits,
\* or for a boolean-coded feature one of the words
Stated(f, v) ==
    \/ v.t \in {"none", "num"}
    \/ v.t = "str" /\ (v.s = "" \/ ParseNumber(v.s).ok)
    \/ v.t = "str" /\ f \in BooleanCoded /\ v.s \in TruthWords \cup FalseWords
AmountOf(f, v) ==
    IF v.t = "num" THEN v.q
    ELSE IF v.t = "str" /\ f \in BooleanCoded /\ v.s \in TruthWords THEN One
    ELSE IF v.t = "str" /\ f \in BooleanCoded /\ v.s \in FalseWords THEN Zero
    ELSE IF v.t = "str" /\ ParseNumber(v.s).ok THEN ParseNumber(v.s).q
    ELSE Zero
\* the encodings of a flag that is not set
FalsyFlags == {None, NumI(0), Str(""), Str("0")}
\* the competitor is no FPGA and carries no set flag
Plain(a) ==
    /\ ~CoreNamesFpga(a)
    /\ dict_get(a, "is_fpga") \in FalsyFlags
    /\ dict_get(a, "is_dsp") \in FalsyFlags

\* the candidate's value of f meets or exceeds the competitor's
Meets(f, av, bv) ==
    Stated(f, av) /\ Stated(f, bv) /\ RLe(AmountOf(f, av), AmountOf(f, bv))

\* C20: under the default weights, for a competitor that is neither FPGA
\* nor DSP-flagged, if the candidate's core equals the competitor's and its
\* value meets or exceeds the competitor's on every weighted feature, the
\* percentage is 100 and categorize gives 'Best Match'.
C20_FullCoverage ==
    (/\ Done("weighted_similarity") /\ call.weights = None
     /\ Plain(call.a)
     /\ dict_get(call.a, "core") = dict_get(call.b, "core")
     /\ \A f \in DOMAIN DefaultWeightsTable \ {"core"} :
           Meets(f, _get(call.a, f), _get(call.b, f))) =>
        /\ ret[1] = Int2Rat(100)
        /\ categorize(ret[1]) = "Best Match"

---------------------------------------------------------------------------
(* Candidates that carry the business-rule flags.                          *)

\* values a flag key may hold on the candidate's side
CandidateFlagValues == {Absent, NumI(0), NumI(1), Str("on"), Str("yes")}
FlaggedCandidates ==
    {MkDict([core |-> c, max_clock_mhz |-> NumI(100 * MaxClockStep), fpu |-> f,
             is_fpga |-> g, is_dsp |-> d]) :
        c \in {Str("ARM Cortex-M4"), Str("Lattice FPGA")},
        f \in {Absent} \cup FpuValues,
        g \in CandidateFlagValues,
        d \in CandidateFlagValues}
CandidateFlagCompetitors ==
    {MkDict([core |-> Str("ARM Cortex-M4"), max_clock_mhz |-> NumI(100 * MaxClockStep),
             fpu |-> NumI(1), is_fpga |-> g, is_dsp |-> d]) :
        g \in {Absent, NumI(1)}, d \in {Absent, NumI(1)}}
CandidateFlagCalls ==
    {[op |-> "weighted_similarity", a |-> a, b |-> b, weights |-> w] :
        a \in CandidateFlagCompetitors, b \in FlaggedCandidates,
        w \in {None, RequirementTable}}

InitCandidateFlags == InitWith(CandidateFlagCalls)
NextCandidateFlags == WeightedSimilarity
SpecCandidateFlags == InitCandidateFlags /\ [][NextCandidateFlags]_vars

\* candidate b with its is_fpga and is_dsp keys set to g and d (or removed)
Reflagged(b, g, d) ==
    MkDict([k \in DOMAIN b \cup {"is_fpga", "is_dsp"} |->
               IF k = "is_fpga" THEN g ELSE IF k = "is_dsp" THEN d ELSE b[k]])
\* the percentage of the scoring loop for table w, before the DSP rule
ordinary_pct(a, b, w) ==
    RMul(RDiv(weighted_score(w, per_feature_scores(a, b, w)), dict_sum(w)),
         Int2Rat(100))

\* C21: the business-rule flags are read from the competitor only: a
\* candidate gets the same (percentage, per-feature scores) whatever its
\* is_fpga and is_dsp values, and a candidate whose core contains "fpga"
\* is not disqualified on that account: against a competitor that is no
\* FPGA it gets the per-feature scores and the percentage of the ordinary
\* weighted computation (less the competitor's DSP deduction).
C21_FlagsFromCompetitorOnly ==
    Done("weighted_similarity") =>
        /\ \A g \in CandidateFlagValues, d \in CandidateFlagValues :
              weighted_similarity(call.a, Reflagged(call.b, g, d), call.weights) = ret
        /\ (CoreNamesFpga(call.b) /\ ~is_fpga(call.a)) =>
              /\ ret[2] = per_feature_scores(call.a, call.b, ws.weights)
              /\ ret[1] = dsp_penalty(call.a, ordinary_pct(call.a, call.b, ws.weights))

\* a flagged candidate with an FPGA core scored above 0 against a competitor
\* that carries no flag
C21_Witness ==
    /\ Done("weighted_similarity")
    /\ CoreNamesFpga(call.b)
    /\ dict_get(call.b, "is_fpga") = NumI(1) /\ dict_get(call.b, "is_dsp") = Str("yes")
    /\ ~is_fpga(call.a) /\ ~is_dsp_flag(call.a)
    /\ RLt(Zero, ret[1])
    /\ ret[2]["fpu"] = One

---------------------------------------------------------------------------
(* The labels the main window knows.                                       *)

\* CATEGORY_COLORS, and the keys of counts in _refresh_table
CATEGORY_COLORS ==
    [c \in {"Best Match", "Partial", "No Match"} |->
        IF c = "Best Match" THEN "#2e7d32"
        ELSE IF c = "Partial" THEN "#f9a825" ELSE "#c62828"]
CategoryLabels == {CATEGORIES[i][2] : i \in 1..Len(CATEGORIES)}

\* C22: for every competitor and every candidate list, the empty list
\* included, categorize applied to the score best_match returns is a label
\* of the category table, and so one the main window counts and colours.
C22_CategoryOfBestMatch ==
    Done("best_match") =>
        /\ categorize(ret[2]) \in CategoryLabels
        /\ categorize(ret[2]) \in DOMAIN CATEGORY_COLORS

---------------------------------------------------------------------------
(* Competitors whose flags are written in every encoding.                  *)

\* the encodings of a flag that is not set, as values of the key
FalsyEncodings ==
    {None, NumI(0), Str("0"), Str("")} \cup {Str(word) : word \in FalseWords}
EncodedFlagCompetitors ==
    {MkDict([core |-> c, max_clock_mhz |-> m, fpu |-> NumI(1),
             is_fpga |-> g, is_dsp |-> d]) :
        c \in {Absent, Str("ARM Cortex-M4")},
        m \in {NumI(100), NumI(100 * MaxClockStep)},
        g \in {Absent, NumI(1), Str("yes")} \cup FalsyEncodings,
        d \in {Absent, NumI(1), Str("no")}}
EncodedFlagCalls ==
    {[op |-> "weighted_similarity", a |-> a, b |-> b, weights |-> w] :
        a \in EncodedFlagCompetitors,
        b \in {[core |-> Str("ARM Cortex-M4"), max_clock_mhz |-> NumI(200),
                 fpu |-> NumI(1)],
                [core |-> Str("ARM Cortex-M0+"), max_clock_mhz |-> NumI(100)]},
        w \in {None, RequirementTable}}

InitEncodedFlags == InitWith(EncodedFlagCalls)
NextEncodedFlags == WeightedSimilarity
SpecEncodedFlags == InitEncodedFlags /\ [][NextEncodedFlags]_vars

\* C23: a competitor whose is_fpga value is a falsy encoding (0, None,
\* missing, "0", "", "no", "false", "off") and whose core does not contain
\* "fpga" is not disqualified and gets exactly the result it gets with
\* is_fpga absent.
C23_FalsyFpgaFlag ==
    (/\ Done("weighted_similarity")
     /\ dict_get(call.a, "is_fpga") \in FalsyEncodings
     /\ ~CoreNamesFpga(call.a)) =>
        ret = weighted_similarity(Without(call.a, "is_fpga"), call.b, call.weights)

---------------------------------------------------------------------------
(* Requirements and offers that are raised.                                *)

\* numeric values of the counted feature gpios
GpioValues == {NumI(0), NumI(4), NumI(8)}
RaisedCompetitors ==
    {MkDict([core |-> Str("ARM Cortex-M4"), max_clock_mhz |-> m, fpu |-> f,
             gpios |-> g, is_dsp |-> d]) :
        m \in ClockValues, f \in {NumI(0)} \cup FpuValues, g \in GpioValues,
        d \in {Absent, NumI(1)}}
RaisedCandidates ==
    {MkDict([core |-> Str("ARM Cortex-M4"), max_clock_mhz |-> m, fpu |-> f,
             gpios |-> g]) :
        m \in {Absent, NumI(100), NumI(100 * MaxClockStep)},
        f \in {Absent} \cup FpuValues,
        g \in {Absent, NumI(0), NumI(4)}}
RaisedCalls ==
    {[op |-> "weighted_similarity", a |-> a, b |-> b, weights |-> w] :
        a \in RaisedCompetitors, b \in RaisedCandidates,
        w \in {None, RequirementTable}}

\* best_match over lists of candidates that cover the target in part
RaisedPool ==
    {MkDict([name |-> Str(n), max_clock_mhz |-> m, fpu |-> f, gpios |-> g]) :
        n \in {"P1"},
        m \in {NumI(100), NumI(100 * MaxClockStep)},
        f \in {Absent, NumI(1)},
        g \in {NumI(0), NumI(4)}}
RaisedBestMatchCalls ==
    {[op |-> "best_match", target |-> t, candidates |-> cs, weights |-> w] :
        t \in {MkDict([max_clock_mhz |-> NumI(100 * MaxClockStep), fpu |-> NumI(MaxFpu),
                        gpios |-> NumI(8), is_dsp |-> d]) : d \in {Absent, NumI(1)}},
        cs \in SeqsUpTo(RaisedPool, 2),
        w \in {None, RequirementTable}}

InitRaised == InitWith(RaisedCalls \cup RaisedBestMatchCalls)
NextRaised == WeightedSimilarity \/ BestMatchEnter \/ BestMatchStep \/ BestMatchReturn
SpecRaised == InitRaised /\ [][NextRaised]_vars

\* the values a numeric feature may be raised to
RaisedValues(f) ==
    IF f = "max_clock_mhz" THEN ClockValues
    ELSE IF f = "fpu" THEN {NumI(0)} \cup FpuValues
    ELSE GpioValues
\* the attribute sets that are d with its numeric value of f raised
Raises(d, f) ==
    IF f \in DOMAIN d /\ d[f].t = "num"
    THEN {With(d, f, v) : v \in {x \in RaisedValues(f) : RLt(d[f].q, x.q)}}
    ELSE {}
RaisedFeatures == {"max_clock_mhz", "fpu", "gpios"}

\* C24 as stated: with the default weights and a fixed candidate, raising
\* one numeric requirement of the competitor, max_clock_mhz across the 200
\* and 300 MHz thresholds included, never raises the percentage.
C24_RequirementMonotone ==
    (Done("weighted_similarity") /\ call.weights = None) =>
        \A f \in RaisedFeatures : \A a2 \in Raises(call.a, f) :
            RLe(weighted_similarity(a2, call.b, None)[1], ret[1])

\* C24 amended: with the default weights and a fixed candidate, raising one
\* numeric requirement of the competitor never raises the percentage when
\* the raise leaves the clock weight of the dynamic adjustment unchanged
\* (the requirement is not max_clock_mhz, or it stays on the same side of
\* both thresholds).
C24_RequirementMonotoneAmended ==
    (Done("weighted_similarity") /\ call.weights = None) =>
        \A f \in RaisedFeatures : \A a2 \in Raises(call.a, f) :
            target_clock_w(a2, DefaultWeightsTable)
                    = target_clock_w(call.a, DefaultWeightsTable)
                => RLe(weighted_similarity(a2, call.b, None)[1], ret[1])

\* a clock requirement raised within one clock regime lowers the percentage
C24_Witness ==
    /\ Done("weighted_similarity") /\ call.weights = None
    /\ \E a2 \in Raises(call.a, "max_clock_mhz") :
          /\ target_clock_w(a2, DefaultWeightsTable)
                = target_clock_w(call.a, DefaultWeightsTable)
          /\ RLt(weighted_similarity(a2, call.b, None)[1], ret[1])

\* the positions of the list at which best_match's result first stands
WinnerAt(candidates, best) ==
    {i \in 1..Len(candidates) :
        candidates[i] = best /\ \A j \in 1..(i - 1) : candidates[j] # best}

\* result r2 has neither a lower score of feature f nor a lower percentage
NotLower(r1, r2, f) == RLe(r1[2][f], r2[2][f]) /\ RLe(r1[1], r2[1])

\* C25: for a fixed competitor and a table of non-negative weights, raising
\* the candidate's numeric value of one weighted feature other than core
\* never lowers that feature's score nor the percentage, and a candidate
\* that best_match chose is still chosen, at the same place of the same
\* list, after its value was raised.
C25_OfferMonotone ==
    /\ (Done("weighted_similarity") /\ NonNegativeWeights(call.weights)) =>
          \A f \in RaisedFeatures \cap DOMAIN ret[2] : \A b2 \in Raises(call.b, f) :
              NotLower(ret, weighted_similarity(call.a, b2, call.weights), f)
    /\ (Done("best_match") /\ NonNegativeWeights(call.weights)) =>
          \A i \in WinnerAt(call.candidates, ret[1]) :
              \A f \in RaisedFeatures \cap DOMAIN ret[3] :
                  \A c2 \in Raises(call.candidates[i], f) :
                      fresh_best_match(call.target, [call.candidates EXCEPT ![i] = c2],
                                       call.weights, 1, best_match_init)[1] = c2

\* best_match chose the first of two different candidates that were tied,
\* and a raise of its clock lifts its clock score and its percentage
C25_Witness ==
    /\ Done("best_match") /\ Len(call.candidates) = 2
    /\ NonNegativeWeights(call.weights)
    /\ call.candidates[1] # call.candidates[2]
    /\ ret[1] = call.candidates[1]
    /\ weighted_similarity(call.target, call.candidates[2], call.weights)[1] = ret[2]
    /\ \E c2 \in Raises(call.candidates[1], "max_clock_mhz") :
          /\ RLt(ret[3]["max_clock_mhz"],
                 weighted_similarity(call.target, c2, call.weights)[2]["max_clock_mhz"])
          /\ RLt(ret[2], weighted_similarity(call.target, c2, call.weights)[1])

---------------------------------------------------------------------------
(* Candidates that differ in core.                                         *)

CandidateCores ==
    {Absent, Str("ARM Cortex-M4"), Str("ARM Cortex-M0+"), Str("8051"),
     Str("Lattice FPGA")}
CoreCompetitors ==
    {MkDict([core |-> c, max_clock_mhz |-> m, fpu |-> NumI(MaxFpu), is_dsp |-> d]) :
        c \in {Absent, Str("ARM Cortex-M4"), Str("fpga soc")},
        m \in ClockValues,
        d \in {Absent, NumI(1)}}
CoreCandidates ==
    {MkDict([core |-> c, max_clock_mhz |-> NumI(200), fpu |-> f]) :
        c \in CandidateCores, f \in {Absent} \cup FpuValues}
CoreWeightedCalls ==
    {[op |-> "weighted_similarity", a |-> a, b |-> b, weights |-> w] :
        a \in CoreCompetitors, b \in CoreCandidates, w \in {None, RequirementTable}}
CoreBestMatchCalls ==
    {[op |-> "best_match", target |-> t, candidates |-> cs, weights |-> w] :
        t \in {a \in CoreCompetitors : dict_get(a, "is_dsp") = None},
        cs \in SeqsUpTo({b \in CoreCandidates :
                            /\ dict_get(b, "fpu") \in {None, NumI(MaxFpu)}
                            /\ dict_get(b, "core") \in {Str("ARM Cortex-M4"), Str("8051")}},
                        2),
        w \in {None, RequirementTable}}

InitCores == InitWith(CoreWeightedCalls \cup CoreBestMatchCalls)
NextCores == WeightedSimilarity \/ BestMatchEnter \/ BestMatchStep \/ BestMatchReturn
SpecCores == InitCores /\ [][NextCores]_vars

\* candidate b with its core set to c (or removed)
Recored(b, c) ==
    MkDict([k \in DOMAIN b \cup {"core"} |-> IF k = "core" THEN c ELSE b[k]])

\* two results with the same percentage and the same scores but for core
SameButCore(r1, r2) ==
    /\ r1[1] = r2[1]
    /\ DOMAIN r1[2] = DOMAIN r2[2]
    /\ \A f \in DOMAIN r1[2] \ {"core"} : r1[2][f] = r2[2][f]

\* C26: under the default weight table the percentage does not depend on
\* the candidate's core: two candidates that differ only in core get the
\* same percentage and the same per-feature scores but for core, and
\* best_match never chooses a candidate that stands behind one differing
\* from it only in core.
C26_CoreWeighsNothing ==
    /\ (Done("weighted_similarity") /\ call.weights = None) =>
          \A c \in CandidateCores :
              SameButCore(weighted_similarity(call.a, Recored(call.b, c), None), ret)
    /\ (Done("best_match") /\ call.weights = None) =>
          \A k \in WinnerAt(call.candidates, ret[1]) : \A i \in 1..(k - 1) :
              Without(call.candidates[i], "core") # Without(call.candidates[k], "core")

\* a candidate of another core family scored as the one of the competitor's
\* family: the core scores differ, the percentages do not
C26_Witness ==
    /\ Done("weighted_similarity") /\ call.weights = None
    /\ dict_get(call.a, "core") = Str("ARM Cortex-M4")
    /\ dict_get(call.b, "core") = Str("8051")
    /\ ret[2]["core"] = Zero
    /\ weighted_similarity(call.a, Recored(call.b, Str("ARM Cortex-M4")), None)[2]["core"] = One
    /\ weighted_similarity(call.a, Recored(call.b, Str("ARM Cortex-M4")), None)[1] = ret[1]
    /\ RLt(Zero, ret[1]) /\ RLt(ret[1], Int2Rat(100))

---------------------------------------------------------------------------
(* Calls on the JSON store, made one after another on the seeded store.    *)

\* the most calls made on the store
MaxOps == 3

\* ids and names the calls pass: seeded companies and MCUs, the ids the
\* first new company and the first new MCU get, a name that differs from a
\* seeded one in letter case, and one that reads like a legacy file name
StoreCompanyIds == {1, 3, 9}
StoreMcuIds == {1, 7, 8}
StoreNames == {"NXP", "nxp", "Company 3"}
StoreMcuData == {[name |-> "X2"], [fpu |-> 2]}
\* update_nco_entry's keyword arguments: none named, one named, all named
NoFields ==
    [company_id |-> None, comp_mcu_id |-> None, quantity |-> None,
     our_mcu_id |-> None, org_id |-> None]
AllFields ==
    [company_id |-> NumI(2), comp_mcu_id |-> NumI(4), quantity |-> NumI(5),
     our_mcu_id |-> NumI(2), org_id |-> NumI(1)]
StoreEntryFields ==
    {NoFields, AllFields} \cup
        {[k \in DOMAIN NoFields |-> IF k = f THEN AllFields[k] ELSE None] :
            f \in DOMAIN NoFields}

\* the ids of the MCUs that all_mcus() lists
McuIds(d) == {all_mcus(d).ret[i].id : i \in 1..Len(all_mcus(d).ret)}
CompanyIds(d) == {d.companies[i].id : i \in 1..Len(d.companies)}

InitStore ==
    /\ DEFAULT_WEIGHTS = DefaultWeightsTable
    /\ pc = "store"
    /\ call = [op |-> "initialize"]
    /\ ret = NoRet
    /\ bm = BmIdle
    /\ ws = WsIdle
    /\ completed = 0
    /\ db = initialize
    /\ db_before = initialize

\* the call c is made and returns r.ret, leaving the store r.d
StoreCall(c, r) ==
    /\ pc = "store" /\ completed < MaxOps
    /\ call' = c
    /\ ret' = r.ret
    /\ db' = r.d
    /\ db_before' = db
    /\ completed' = completed + 1
    /\ UNCHANGED <<DEFAULT_WEIGHTS, pc, bm, ws>>

EnsureCompany ==
    \E name \in StoreNames, is_ours \in {0, 1} :
        \E r \in {ensure_company(db, name, is_ours)} :
            StoreCall([op |-> "ensure_company", name |-> name, is_ours |-> is_ours], r)

\* the dialogs pass the id of a listed company
InsertMcu ==
    \E company_id \in StoreCompanyIds \cap CompanyIds(db) :
        \E r \in {insert_mcu(db, company_id, [name |-> "X1"])} :
            StoreCall([op |-> "insert_mcu", company_id |-> company_id,
                       data |-> [name |-> "X1"]], r)

UpdateMcu ==
    \E mcu_id \in StoreMcuIds, data \in StoreMcuData :
        \E r \in {update_mcu(db, mcu_id, data)} :
            StoreCall([op |-> "update_mcu", mcu_id |-> mcu_id, data |-> data], r)

DeleteMcu ==
    \E mcu_id \in StoreMcuIds :
        \E r \in {delete_mcu(db, mcu_id)} :
            StoreCall([op |-> "delete_mcu", mcu_id |-> mcu_id], r)

DeleteCompany ==
    \E company_id \in StoreCompanyIds :
        \E r \in {delete_company(db, company_id)} :
            StoreCall([op |-> "delete_company", company_id |-> company_id], r)

\* an entry is created with the ids of MCUs that exist
AddNcoEntry ==
    \E company_id \in {2, 3}, comp_mcu_id \in {4, 7} \cap McuIds(db),
       our_mcu_id \in {None} \cup {NumI(m) : m \in {1} \cap McuIds(db)} :
        \E r \in {add_nco_entry(db, company_id, comp_mcu_id, 10, our_mcu_id, "n", None)} :
            StoreCall([op |-> "add_nco_entry", company_id |-> company_id,
                       comp_mcu_id |-> comp_mcu_id, our_mcu_id |-> our_mcu_id], r)

UpdateNcoEntry ==
    \E entry_id \in {1, 2}, f \in StoreEntryFields :
        \E r \in {update_nco_entry(db, entry_id, f.company_id, f.comp_mcu_id,
                                     f.quantity, f.our_mcu_id, f.org_id)} :
            StoreCall([op |-> "update_nco_entry", entry_id |-> entry_id, fields |-> f], r)

NextStore ==
    \/ EnsureCompany
    \/ InsertMcu
    \/ UpdateMcu
    \/ DeleteMcu
    \/ DeleteCompany
    \/ AddNcoEntry
    \/ UpdateNcoEntry
SpecStore == InitStore /\ [][NextStore]_vars

Returned(op, value) == pc = "store" /\ call.op = op /\ ret = value
Rows(rows) == {rows[i] : i \in 1..Len(rows)}

\* the ids of the MCUs that store d lists for company c
McuIdsOf(d, c) ==
    {list_mcus_by_company(d, c).ret[i].id :
        i \in 1..Len(list_mcus_by_company(d, c).ret)}

\* C27: after delete_mcu(m) or delete_company(c) returned True no NCO entry
\* refers to an MCU that was removed: no entry has m as comp_mcu_id or
\* our_mcu_id, and no entry has the id of an MCU of company c as
\* comp_mcu_id or our_mcu_id; every entry was created with ids of MCUs
\* that existed.
C27_NoDanglingEntries ==
    /\ Returned("delete_mcu", TRUE) =>
          \A r \in Rows(db.nco) :
              r.comp_mcu_id # call.mcu_id /\ r.our_mcu_id # NumI(call.mcu_id)
    /\ Returned("delete_company", TRUE) =>
          \A r \in Rows(db.nco) : \A m \in McuIdsOf(db_before, call.company_id) :
              r.comp_mcu_id # m /\ r.our_mcu_id # NumI(m)

\* the fields of an NCO entry
EntryFields == {"org_id", "company_id", "comp_mcu_id", "quantity", "our_mcu_id", "notes"}
\* the fields a call of update_nco_entry names
Named(fields) == {k \in DOMAIN fields : fields[k] # None}

\* C28: update_nco_entry changes only the fields passed as non-None
\* arguments: the entry with the given id keeps every field the call does
\* not name, every other entry is unchanged, and when no entry has the id
\* the call returns False and the store is unchanged.
C28_UpdateFrame ==
    /\ Returned("update_nco_entry", TRUE) =>
          /\ Len(db.nco) = Len(db_before.nco)
          /\ \A i \in 1..Len(db.nco) :
                IF db_before.nco[i].id = call.entry_id
                    /\ \A j \in 1..(i - 1) : db_before.nco[j].id # call.entry_id
                THEN \A k \in EntryFields \ Named(call.fields) :
                        db.nco[i][k] = db_before.nco[i][k]
                ELSE db.nco[i] = db_before.nco[i]
          /\ db.companies = db_before.companies /\ db.files = db_before.files
    /\ Returned("update_nco_entry", FALSE) =>
          /\ \A r \in Rows(db_before.nco) : r.id # call.entry_id
          /\ db = db_before

\* C29: delete_company(c) removes only company c, its MCUs and the NCO
\* entries whose company_id is c: the other companies and the other
\* entries stay, and for every other company d list_mcus_by_company(d)
\* returns the same records before and after the call.
C29_DeleteCompanyFrame ==
    Returned("delete_company", TRUE) =>
        /\ db.companies = without_id(db_before.companies, call.company_id)
        /\ db.nco = nco_without_company(db_before.nco, call.company_id)
        /\ \A d \in CompanyIds(db) :
              list_mcus_by_company(db, d).ret = list_mcus_by_company(db_before, d).ret

\* the MCU records stored for the companies: file name, place, record
StoredMcus(d) ==
    {<<fp, i>> : fp \in {_mcus_file(d, c) : c \in CompanyIds(d)} \cap DOMAIN d.files,
                 i \in 1..Len(SeedMcus) + MaxOps}
StoredAt(d, at) == at[2] <= Len(d.files[at[1]])

\* C30: after any sequence of insert_mcu, update_mcu, delete_mcu,
\* ensure_company and delete_company from the seeded store no two MCU
\* records stored for the companies share an id, and insert_mcu returns an
\* id that no MCU stored before the call holds.
C30_UniqueMcuIds ==
    /\ \A at1 \in StoredMcus(db), at2 \in StoredMcus(db) :
          (StoredAt(db, at1) /\ StoredAt(db, at2) /\ at1 # at2) =>
              db.files[at1[1]][at1[2]].id # db.files[at2[1]][at2[2]].id
    /\ (pc = "store" /\ call.op = "insert_mcu") =>
          \A at \in StoredMcus(db_before) :
              StoredAt(db_before, at) => db_before.files[at[1]][at[2]].id # ret

=============================================================================
